---------------------------- MODULE Spec2Model ----------------------------
(***************************************************************************)
(* Session registry and lifecycle coordinator of claude-hub.               *)
(*                                                                         *)
(* Two programs are modelled, selected by the variable `variant`:          *)
(*   "hub"    - src/claude-hub.py         (fixed macOS tool paths)         *)
(*   "remote" - src/claude-remote-hub.py  (tools looked up on PATH)        *)
(*                                                                         *)
(* The external world is the tmux session table (`sessions`) and the       *)
(* process table of ttyd bridges (`procs`).  Handler threads of the        *)
(* ThreadingMixIn HTTP server run start_session, stop_session and          *)
(* get_sessions one external command per step.                             *)
(***************************************************************************)
EXTENDS Integers, Sequences, FiniteSets, TLC

VARIABLES
    variant,    \* which program runs: "hub" or "remote"
    platform,   \* PLATFORM: "darwin" or "linux"
    path,       \* helper tools that shutil.which finds: subset of {"pkill","lsof","ss"}
    sessions,   \* tmux session table, as tmux list-sessions prints it
    procs,      \* ttyd processes: [argv, st, k], st is "spawned" or "listening"
    th,         \* handler threads: one record per thread
    chain,      \* monitor: the run of non-overlapping start/stop calls on one name
    pf,         \* port allocator: [hex, port, prev] of the call being made
    gs,         \* one get_sessions call whose probes may fail, be slow or hang
    rq,         \* one HTTP request: its path, its body and what the handler did
    xc,         \* one operation as the external commands it runs, with their exits
    cli,        \* the command line: claude-hub start, stop
    tx,         \* send-text requests in flight and the paste buffer of tmux
    mon,        \* monitor: sessions that died, starts that returned, polls
    fn          \* names and paths as character strings: the listing, get_folders

cfg == <<variant, platform, path>>
more == <<xc, cli, tx, mon, fn>>
aux == <<pf, gs, rq, more>>
vars == <<variant, platform, path, sessions, procs, th, chain, pf, gs, rq, xc, cli, tx, mon, fn>>

---------------------------------------------------------------------------
(* Bounds *)

MaxThreads == 2     \* concurrent handler threads
MaxLists == 1       \* listings in flight at once
MaxListOverlap == 0 \* start and stop calls in flight while a listing is
MaxPending == 2     \* ttyd processes spawned and not yet bound, at once
MaxClock == 8       \* seconds of a get_sessions call that are followed
MaxHexLen == 2      \* hex digits of the digests enumerated for the allocator
MaxNameLen == 3     \* characters of a session name in the listing round trip
MaxTable == 2       \* tmux sessions in the listing round trip
MaxRelParts == 2    \* components of the path given to the folder picker
MaxLog == 5         \* external commands of one operation that are followed

(* Program constants *)

BASE_PORT == 7700
MAX_PORT == 7799
\* if not text or len(text) > 10000
MaxTextLength == 10000
\* tmux_future.result(timeout=3), ports_future.result(timeout=3)
ResultTimeout == 3

Threads == 1..MaxThreads
\* Session names of the model; md5 sends both to port 7796.
Names == {"alpha", "proto"}
\* tmux keeps its sessions sorted by name
SortedNames == <<"My Name", "alpha", "proto">>
\* Names hashed by the allocator; "beta" goes to port 7771.
HashedNames == {"alpha", "proto", "beta"}
Tools == {"pkill", "lsof", "ss"}
HexDigit == 0..15

---------------------------------------------------------------------------
(* Port allocator *)

\* hashlib.md5(name.encode()).hexdigest() for the names of the model, as hex
\* digits, most significant first.
md5hex(name) ==
    CASE name = "alpha" ->
           <<2,12,1,7,4,3,10,3,9,1,3,0,5,15,11,15,3,6,7,13,15,8,14,4,15,0,6,9,15,9,15,9>>
      [] name = "proto" ->
           <<3,4,9,12,8,5,10,10,14,1,13,7,1,1,5,1,12,0,0,1,7,0,2,15,1,7,10,2,11,5,15,0>>
      [] name = "My Name" ->
           <<2,3,11,14,12,11,0,9,3,11,13,13,13,8,7,14,8,1,7,14,13,15,10,1,7,9,6,2,15,9,14,8>>
      [] name = "beta" ->
           <<9,8,7,11,12,10,11,0,1,11,9,2,9,14,11,2,12,0,7,8,7,7,11,2,2,4,2,1,5,12,9,2>>
      [] name = "" ->
           <<13,4,1,13,8,12,13,9,8,15,0,0,11,2,0,4,14,9,8,0,0,9,9,8,14,12,15,8,4,2,7,14>>

\* int(hex, 16) % m, by Horner's rule so that no intermediate exceeds 16*m.
RECURSIVE HexMod(_, _, _)
HexMod(hex, m, acc) ==
    IF hex = <<>> THEN acc
    ELSE HexMod(Tail(hex), m, (acc * 16 + Head(hex)) % m)

PortOffByOneHigh(hex) == BASE_PORT + HexMod(hex, MAX_PORT - BASE_PORT + 2, 0)

\* return BASE_PORT + (h % (MAX_PORT - BASE_PORT))
port_of_digest(hex) == BASE_PORT + HexMod(hex, MAX_PORT - BASE_PORT, 0)

port_for_name(name) == port_of_digest(md5hex(name))

---------------------------------------------------------------------------
(* Specification of the allocator alone: a digest is chosen, then hashed.  *)

HexStrings == UNION {[1..k -> HexDigit] : k \in 1..MaxHexLen}

\* prev is the result of the call before, when it hashed the same digest.
PfIdle == [hex |-> <<>>, port |-> 0, prev |-> 0]

PortChoose ==
    /\ pf.hex # <<>> => pf.port # 0
    /\ \E h \in HexStrings \cup {md5hex(n) : n \in HashedNames} :
          pf' = [hex |-> h, port |-> 0, prev |-> IF h = pf.hex THEN pf.port ELSE 0]
    /\ UNCHANGED <<cfg, sessions, procs, th, chain, gs, rq, more>>

PortApply ==
    /\ pf.hex # <<>>
    /\ pf.port = 0
    /\ pf' = [pf EXCEPT !.port = port_of_digest(pf.hex)]
    /\ UNCHANGED <<cfg, sessions, procs, th, chain, gs, rq, more>>

---------------------------------------------------------------------------
(* Names, command lines and the external tools *)

\* session = f"claude-{name}": the reserved prefix followed by the name.
SessionId(name) == <<"claude-", name>>

\* line.startswith("claude-") and parts[0].removeprefix("claude-")
HasPrefix(id) == id[1] = "claude-"
RemovePrefix(id) == id[2]

\* str(port): the decimal digits of a number, most significant first.
RECURSIVE Digits(_)
Digits(n) == IF n < 10 THEN <<n>> ELSE Append(Digits(n \div 10), n % 10)

\* What ttyd reads back from the digits of its -p argument.
RECURSIVE FromDigits(_)
FromDigits(d) ==
    IF d = <<>> THEN 0
    ELSE FromDigits(SubSeq(d, 1, Len(d) - 1)) * 10 + d[Len(d)]

\* One argument of a command line: a word, a number or a session id.
W(s) == [k |-> "w", v |-> s]
N(n) == [k |-> "n", v |-> Digits(n)]
S(id) == [k |-> "s", v |-> id]

IsWord(tok, s) == tok.k = "w" /\ tok.v = s

\* The ttyd command line of start_session in claude-remote-hub.py.  The -I and
\* -S options are appended only when the files exist; they follow -p.
TtydArgvRemote(port, session) ==
    << W("ttyd"), W("-W"), W("-p"), N(port), W("--ping-interval"), N(5),
       W("-t"), W("fontSize"), W("-t"), W("theme"), W("-t"), W("titleFixed"),
       W("tmux"), W("attach-session"), W("-t"), S(session) >>

\* The ttyd command line of start_session in claude-hub.py.
TtydArgvHub(port, session) ==
    << W("ttyd"), W("-W"), W("-p"), N(port), W("--ping-interval"), N(5),
       W("-t"), W("fontSize"), W("-I"), W("ttyd-index.html"),
       W("-S"), W("-C"), W("hub.crt"), W("-K"), W("hub.key"),
       W("-t"), W("theme"), W("-t"), W("titleFixed"),
       W("tmux"), W("attach-session"), W("-t"), S(session) >>

TtydArgv(port, session) ==
    IF variant = "hub" THEN TtydArgvHub(port, session)
    ELSE TtydArgvRemote(port, session)

\* The port a ttyd process binds: the argument after -p.
ArgPort(argv) ==
    LET i == CHOOSE i \in 1..(Len(argv) - 1) : IsWord(argv[i], "-p")
    IN FromDigits(argv[i + 1].v)

\* The tmux session a ttyd process attaches its clients to: the last argument.
ArgSession(argv) == argv[Len(argv)].v

IsPrefixOf(a, b) == Len(a) <= Len(b) /\ SubSeq(b, 1, Len(a)) = a

\* The text after "-p " in the pattern matches the start of the next argument.
PortArgAt(argv, j, digits) ==
    /\ j + 1 <= Len(argv)
    /\ IsWord(argv[j], "-p")
    /\ argv[j + 1].k = "n"
    /\ IsPrefixOf(digits, argv[j + 1].v)

\* pkill -f "ttyd -p <digits>": the three parts are adjacent in the command line.
MatchAdjacent(argv, digits) ==
    \E i \in 1..Len(argv) : IsWord(argv[i], "ttyd") /\ PortArgAt(argv, i + 1, digits)

\* pkill -f "ttyd.*-p <digits>": anything may stand between ttyd and -p.
MatchGap(argv, digits) ==
    \E i \in 1..Len(argv) : \E j \in (i + 1)..Len(argv) :
        IsWord(argv[i], "ttyd") /\ PortArgAt(argv, j, digits)

\* The pattern stop_session gives to pkill -f, applied to one command line.
StopPatternMatches(argv, port) ==
    IF variant = "hub" THEN MatchAdjacent(argv, Digits(port))
    ELSE MatchGap(argv, Digits(port))

\* pkill -f: every matching process is sent SIGTERM and exits.
Pkill(table, port) == {p \in table : ~StopPatternMatches(p.argv, port)}

Listening(port) == {p \in procs : p.st = "listening" /\ ArgPort(p.argv) = port}
ListeningPorts == {ArgPort(p.argv) : p \in {q \in procs : q.st = "listening"}}
InRange(ports) == {p \in ports : BASE_PORT <= p /\ p <= MAX_PORT}

\* lsof -i :port exits 0 when some process has a socket on the port.
LsofAny(port) == Listening(port) # {}
\* ss -tlnH "sport = :port" prints the listening sockets of the port.
SsListen(port) == Listening(port) # {}
\* connect_ex(("127.0.0.1", port)) == 0
ConnectProbe(port) == Listening(port) # {}

PortInUseNever(port) == FALSE

port_in_use(port) ==
    IF variant = "hub" THEN LsofAny(port)
    ELSE IF "lsof" \in path THEN LsofAny(port)
    ELSE IF "ss" \in path THEN SsListen(port)
    ELSE ConnectProbe(port)

\* lsof -iTCP:7700-7799 -sTCP:LISTEN
lsof_ports == IF variant = "hub" \/ "lsof" \in path THEN InRange(ListeningPorts) ELSE {}
\* ss -tlnH, filtered to BASE_PORT..MAX_PORT
ss_ports == IF "ss" \in path THEN InRange(ListeningPorts) ELSE {}

get_ttyd_ports ==
    IF variant = "hub" THEN lsof_ports
    ELSE IF lsof_ports = {} /\ platform = "linux" THEN ss_ports
    ELSE lsof_ports

\* tmux has-session -t id
HasSession(id) == \E i \in DOMAIN sessions : sessions[i].id = id
SessionsNamed(id) == {i \in DOMAIN sessions : sessions[i].id = id}

\* tmux new-session -d -s id: refused when a session of that name exists; the
\* new session takes its place in the order of the names.
tmux_new_session(table, id) ==
    IF \E i \in DOMAIN table : table[i].id = id THEN table
    ELSE LET Has(n) == n = id[2] \/ \E i \in DOMAIN table : table[i].id[2] = n
             Rec(n) == IF \E i \in DOMAIN table : table[i].id[2] = n
                       THEN table[CHOOSE i \in DOMAIN table : table[i].id[2] = n]
                       ELSE [id |-> id, mouse |-> FALSE]
             F[k \in 0..Len(SortedNames)] ==
                 IF k = 0 THEN <<>>
                 ELSE IF Has(SortedNames[k]) THEN Append(F[k - 1], Rec(SortedNames[k]))
                 ELSE F[k - 1]
         IN F[Len(SortedNames)]

\* tmux set-option -t id mouse on
tmux_set_option(table, id) ==
    [i \in DOMAIN table |->
        IF table[i].id = id THEN [table[i] EXCEPT !.mouse = TRUE] ELSE table[i]]

\* The session that tmux takes for -t id: the one of that name, else the only
\* session whose name starts with id (of the names of the model, only the
\* empty one is the start of another).
TargetSession(table, id) ==
    LET starts == {i \in DOMAIN table : table[i].id[1] = id[1] /\ id[2] = ""}
    IN IF \E i \in DOMAIN table : table[i].id = id THEN id
       ELSE IF Cardinality(starts) = 1 THEN table[CHOOSE i \in starts : TRUE].id
       ELSE id

\* tmux kill-session -t id
tmux_kill_session(table, id) ==
    SelectSeq(table, LAMBDA s : s.id # TargetSession(table, id))

---------------------------------------------------------------------------
(* Handler threads *)

\* A thread between two requests.
Idle ==
    [op |-> "none", name |-> "", pc |-> "idle", port |-> 0, ret |-> 0,
     cmds |-> <<>>, pids |-> {}, lost |-> FALSE,
     out |-> <<>>, ports |-> {}, result |-> <<>>,
     ov |-> {}, pre |-> "", watch |-> {}, truth |-> {}]

Resting(u) == th[u].pc \in {"idle", "done", "raised"}
Active(u) == ~Resting(u)
Lifecycle(u) == Active(u) /\ th[u].op \in {"start", "stop"}

\* How a call (op on name m) overlaps a call on name n.
Tag(op, m, n) == IF op = "start" /\ m = n THEN "start_same" ELSE "other"

\* A ttyd process told to bind the port exists but has not bound it yet.
Starting(port) == \E p \in procs : p.st = "spawned" /\ ArgPort(p.argv) = port

\* A listening bridge on the port of n attaches its clients to the session of n.
Attached(n) ==
    \E p \in Listening(port_for_name(n)) : ArgSession(p.argv) = SessionId(n)

\* The state of a name in the state machine of the coordinator.  "OTHER" is a
\* bridge still starting, or a bridge without its tmux session.
StateOf(n) ==
    LET sess == HasSession(SessionId(n))
        listen == Listening(port_for_name(n)) # {}
    IN CASE sess /\ listen -> "FULLY_RUNNING"
         [] sess /\ ~listen /\ ~Starting(port_for_name(n)) -> "MULTIPLEXER_ONLY"
         [] ~sess /\ ~listen /\ ~Starting(port_for_name(n)) -> "ABSENT"
         [] OTHER -> "OTHER"

ChainEmpty == [st |-> "E", name |-> "", port1 |-> 0, last |-> 0]

\* The monitor after a start or stop that overlapped no other start or stop:
\* S, SS, ST, STS stand for the calls start; start,start; start,stop;
\* start,stop,start made in sequence on one name.
ChainStep(c, op, n, ret) ==
    LET st == IF c.name = n THEN c.st ELSE "E"
    IN IF op = "start"
       THEN [st |-> CASE st = "S" -> "SS"
                      [] st = "SS" -> "SS"
                      [] st = "ST" -> "STS"
                      [] st = "STS" -> "SS"
                      [] OTHER -> "S",
             name |-> n,
             port1 |-> CASE st \in {"S", "ST"} -> c.port1
                         [] st \in {"SS", "STS"} -> c.last
                         [] OTHER -> ret,
             last |-> ret]
       ELSE IF st \in {"S", "SS", "STS"}
            THEN [st |-> "ST", name |-> n,
                  port1 |-> IF st = "S" THEN c.port1 ELSE c.last, last |-> c.last]
            ELSE ChainEmpty

\* The threads' records when thread t begins a start or stop on name n.  A
\* call that had ended is forgotten once another start or stop begins.
BeginLifecycle(t, op, n) ==
    LET others == {u \in Threads \ {t} : Lifecycle(u)}
        mine == [Idle EXCEPT !.op = op, !.name = n, !.port = port_for_name(n),
                             !.pc = IF op = "start" THEN "has_session" ELSE "kill_bridge",
                             !.ov = {Tag(th[u].op, th[u].name, n) : u \in others},
                             !.pre = IF op = "start" THEN StateOf(n) ELSE ""]
    IN /\ (\E u \in Threads : Active(u) /\ th[u].op = "list")
             => Cardinality({u \in Threads : Active(u) /\ Lifecycle(u)}) < MaxListOverlap
       /\ th' = [u \in Threads |->
                    IF u = t THEN mine
                    ELSE IF Lifecycle(u)
                         THEN [th[u] EXCEPT !.ov = @ \cup {Tag(op, n, th[u].name)}]
                    ELSE IF Active(u)
                         THEN [th[u] EXCEPT !.ov = @ \cup (IF op = "start" THEN {n} ELSE {})]
                    ELSE Idle]
       /\ chain' = IF others = {} THEN chain ELSE ChainEmpty

\* A request is served by the first handler thread that is not serving one.
Free(t) == Resting(t) /\ \A u \in 1..(t - 1) : Active(u)

\* Every start in flight can still spawn its bridge.
RoomToStart ==
    Cardinality({p \in procs : p.st = "spawned"})
      + Cardinality({u \in Threads : Active(u) /\ th[u].op = "start"}) < MaxPending

BeginStart(t, n) ==
    /\ Free(t)
    /\ RoomToStart
    /\ BeginLifecycle(t, "start", n)
    /\ UNCHANGED <<cfg, sessions, procs, aux>>

BeginStop(t, n) ==
    /\ Free(t)
    /\ BeginLifecycle(t, "stop", n)
    /\ UNCHANGED <<cfg, sessions, procs, aux>>

\* Thread t's call returns (how = "done") or raises (how = "raised").
Finish(t, rec, how) ==
    /\ th' = [th EXCEPT ![t] = [rec EXCEPT !.pc = how]]
    /\ chain' = IF how = "done" /\ rec.ov = {}
                THEN ChainStep(chain, rec.op, rec.name, rec.ret)
                ELSE ChainEmpty

Step(t, rec) ==
    /\ th' = [th EXCEPT ![t] = rec]
    /\ UNCHANGED chain

Did(t, cmd) == [th[t] EXCEPT !.cmds = Append(@, cmd)]

\* A new process with this command line.  k tells apart the processes that
\* were spawned with the same command line and have not bound yet.
Spawned(argv) ==
    [argv |-> argv, st |-> "spawned",
     k |-> CHOOSE k \in 1..(MaxPending + 1) :
              /\ [argv |-> argv, st |-> "spawned", k |-> k] \notin procs
              /\ \A j \in 1..(k - 1) : [argv |-> argv, st |-> "spawned", k |-> j] \in procs]

\* The threads' records when thread t moves to rec and the processes `dead`
\* exit: a handler that holds one of them from lsof has lost it.
Reap(t, rec, dead) ==
    [u \in Threads |->
        IF u = t THEN rec
        ELSE IF th[u].pids \cap dead # {} THEN [th[u] EXCEPT !.lost = TRUE]
        ELSE th[u]]

---------------------------------------------------------------------------
(* start_session, one external command per step *)

SessionFoundNever(t) == FALSE
SessionFoundAlways(t) == TRUE

\* r.returncode == 0: tmux has-session found the session of the call.
SessionFound(t) == HasSession(SessionId(th[t].name))

\* r = subprocess.run([TMUX_BIN, "has-session", "-t", session])
\* if r.returncode != 0: ...
StartHasSession(t) ==
    /\ th[t].pc = "has_session"
    /\ Step(t, [Did(t, "has-session") EXCEPT
                  !.pc = IF SessionFound(t) THEN "port_in_use" ELSE "new_session"])
    /\ UNCHANGED <<cfg, sessions, procs, aux>>

\* subprocess.Popen([TMUX_BIN, "new-session", "-d", "-s", session, ...]); sleep(0.5);
\* subprocess.run([TMUX_BIN, "set-option", "-t", session, "mouse", "on"])
StartNewSession(t) ==
    /\ th[t].pc = "new_session"
    /\ sessions' = tmux_set_option(tmux_new_session(sessions, SessionId(th[t].name)),
                                   SessionId(th[t].name))
    /\ Step(t, [th[t] EXCEPT !.cmds = @ \o <<"new-session", "set-option">>,
                             !.pc = "port_in_use"])
    /\ UNCHANGED <<cfg, procs, aux>>

\* if not port_in_use(port): ... ; return port
StartPortInUse(t) ==
    /\ th[t].pc = "port_in_use"
    /\ IF port_in_use(th[t].port)
       THEN Finish(t, [Did(t, "port-in-use") EXCEPT !.ret = th[t].port], "done")
       ELSE Step(t, [Did(t, "port-in-use") EXCEPT !.pc = "launch"])
    /\ UNCHANGED <<cfg, sessions, procs, aux>>

LaunchPortSequential(t) == BASE_PORT + Cardinality(procs)

\* "-p", str(port): the port the bridge is told to bind.
LaunchPort(t) == th[t].port

\* subprocess.Popen(ttyd_cmd); sleep(0.3); return port.  The process is spawned;
\* it binds its port later (BridgeBind), the sleep does not wait for that.
StartLaunch(t) ==
    /\ th[t].pc = "launch"
    /\ procs' = procs \cup {Spawned(TtydArgv(LaunchPort(t), SessionId(th[t].name)))}
    /\ Finish(t, [Did(t, "ttyd") EXCEPT !.ret = th[t].port], "done")
    /\ UNCHANGED <<cfg, sessions, aux>>

PortFreeAlways(port) == TRUE

\* bind() succeeds only on a port that no process listens on.
PortFree(port) == Listening(port) = {}

\* A spawned ttyd binds its port, or exits when the port is already bound.
BridgeBind(p) ==
    /\ p \in procs
    /\ p.st = "spawned"
    /\ procs' = IF PortFree(ArgPort(p.argv))
                THEN (procs \ {p}) \cup {[p EXCEPT !.st = "listening", !.k = 1]}
                ELSE procs \ {p}
    /\ UNCHANGED <<cfg, sessions, th, chain, aux>>

---------------------------------------------------------------------------
(* stop_session *)

\* lsof -ti :port: the processes with a socket on the port.
LsofPids(port) == Listening(port)

\* The bridge-termination step: pkill -f when pkill is found, else lsof -ti.
StopKillBridge(t) ==
    /\ th[t].pc = "kill_bridge"
    /\ IF variant = "hub" \/ "pkill" \in path
       THEN /\ procs' = Pkill(procs, th[t].port)
            /\ th' = Reap(t, [Did(t, "pkill") EXCEPT !.pc = "kill_session"],
                           procs \ Pkill(procs, th[t].port))
       ELSE IF "lsof" \in path
       THEN /\ procs' = procs
            /\ th' = [th EXCEPT ![t] =
                        [Did(t, "lsof") EXCEPT
                           !.pids = LsofPids(th[t].port),
                           !.pc = IF LsofPids(th[t].port) = {}
                                  THEN "kill_session" ELSE "os_kill"]]
       ELSE /\ procs' = procs
            /\ th' = [th EXCEPT ![t] = [th[t] EXCEPT !.pc = "kill_session"]]
    /\ UNCHANGED <<cfg, sessions, chain, aux>>

\* for pid_str in out.split("\n"): os.kill(int(pid_str), signal.SIGTERM)
\* os.kill raises ProcessLookupError for a process that is gone; only
\* CalledProcessError and ValueError are caught, so the call ends there.
StopOsKill(t) ==
    /\ th[t].pc = "os_kill"
    /\ IF th[t].lost
       THEN /\ procs' = procs
            /\ Finish(t, [Did(t, "kill") EXCEPT !.pids = {}, !.lost = FALSE], "raised")
       ELSE /\ procs' = procs \ th[t].pids
            /\ th' = Reap(t, [Did(t, "kill") EXCEPT !.pids = {}, !.pc = "kill_session"],
                           th[t].pids)
            /\ UNCHANGED chain
    /\ UNCHANGED <<cfg, sessions, aux>>

\* subprocess.run([TMUX_BIN, "kill-session", "-t", session])
StopKillSession(t) ==
    /\ th[t].pc = "kill_session"
    /\ sessions' = tmux_kill_session(sessions, SessionId(th[t].name))
    /\ Finish(t, Did(t, "kill-session"), "done")
    /\ UNCHANGED <<cfg, procs, aux>>

---------------------------------------------------------------------------
(* get_sessions: two probes run concurrently, then the merge *)

MergeBridges(out, ttyd_ports) ==
    LET Has(n) == \/ \E i \in DOMAIN out : out[i].id = SessionId(n)
                  \/ port_for_name(n) \in ttyd_ports
        Entry(n) == [name |-> n, port |-> port_for_name(n),
                     has_ttyd |-> port_for_name(n) \in ttyd_ports]
    IN SelectSeq([i \in DOMAIN SortedNames |-> Entry(SortedNames[i])],
                 LAMBDA e : Has(e.name))

\* One entry of the listing per tmux session with the reserved prefix.
RECURSIVE Merge(_, _)
Merge(out, ttyd_ports) ==
    IF out = <<>> THEN <<>>
    ELSE IF ~HasPrefix(Head(out).id) THEN Merge(Tail(out), ttyd_ports)
    ELSE LET name == RemovePrefix(Head(out).id)
             port == port_for_name(name)
         IN <<[name |-> name, port |-> port, has_ttyd |-> port \in ttyd_ports]>>
            \o Merge(Tail(out), ttyd_ports)

\* The stop calls that have ended, with how they ended, as a listing begins.
EndedStops ==
    {<<th[u].name, th[u].pc>> :
        u \in {v \in Threads : Resting(v) /\ th[v].op = "stop"
                                /\ "start_same" \notin th[v].ov}}

BeginList(t) ==
    /\ Free(t)
    /\ Cardinality({u \in Threads : Active(u) /\ th[u].op = "list"}) < MaxLists
    /\ Cardinality({u \in Threads : Active(u) /\ Lifecycle(u)}) <= MaxListOverlap
    /\ th' = [u \in Threads |->
                IF u = t THEN [Idle EXCEPT !.op = "list", !.pc = "list_both",
                                           !.watch = EndedStops]
                ELSE IF Active(u) THEN th[u]
                ELSE Idle]
    /\ UNCHANGED <<cfg, sessions, procs, chain, aux>>

\* The merge runs once both futures have their result.
ListProbed(t, rec, other) ==
    IF th[t].pc = "list_both"
    THEN Step(t, [rec EXCEPT !.pc = other])
    ELSE Step(t, [rec EXCEPT !.pc = "done", !.result = Merge(rec.out, rec.ports),
                             !.out = <<>>, !.ports = {}])

\* tmux_future: tmux list-sessions -F "#{session_name}|..."
ListTmux(t) ==
    /\ th[t].pc \in {"list_both", "list_tmux"}
    /\ ListProbed(t, [th[t] EXCEPT !.out = sessions], "list_ports")
    /\ UNCHANGED <<cfg, sessions, procs, aux>>

\* ports_future: get_ttyd_ports().  `truth` records which session each
\* listening bridge is attached to at that moment.
ListPorts(t) ==
    /\ th[t].pc \in {"list_both", "list_ports"}
    /\ ListProbed(t, [th[t] EXCEPT
                        !.ports = get_ttyd_ports,
                        !.truth = {<<ArgPort(p.argv), ArgSession(p.argv)>> :
                                     p \in {q \in procs : q.st = "listening"}}],
                  "list_tmux")
    /\ UNCHANGED <<cfg, sessions, procs, aux>>

---------------------------------------------------------------------------
(* HTTP requests *)

\* The rest of a request path after the prefix of its endpoint, as the client
\* sends it: a sequence of "/" and of percent-encoded pieces.
RawPaths ==
    { <<>>, <<"alpha">>, <<"alpha", "/">>, <<"%2F", "alpha">>, <<"My%20Name">> }
PostPaths == { <<"alpha">>, <<"My%20Name">> }

\* path = unquote(parsed.path), piece by piece
unquote(piece) ==
    CASE piece = "My%20Name" -> "My Name"
      [] piece = "%2F" -> "/"
      [] OTHER -> piece

\* str.strip("/"): the slashes at both ends are dropped.
RECURSIVE LStrip(_)
LStrip(s) == IF s # <<>> /\ Head(s) = "/" THEN LStrip(Tail(s)) ELSE s
Reverse(s) == [i \in 1..Len(s) |-> s[Len(s) + 1 - i]]
Strip(s) == Reverse(LStrip(Reverse(LStrip(s))))

\* name = path.split("/start/")[1].strip("/"), for the paths of the model:
\* what is left of them is one piece or nothing.
PathName(raw) ==
    LET s == Strip([i \in DOMAIN raw |-> unquote(raw[i])])
    IN IF s = <<>> THEN "" ELSE s[1]

\* JSON values: a string of len characters (s tells the strings of the model
\* apart), an array of len elements, a nonzero number, null.
Str(s, n) == [t |-> "string", s |-> s, len |-> n]
Arr(n) == [t |-> "array", s |-> "", len |-> n]
Num == [t |-> "number", s |-> "", len |-> 0]
Null == [t |-> "null", s |-> "", len |-> 0]

\* Request bodies: bytes that are not JSON, JSON that is not an object, and
\* objects with one field.
Body(kind, field, value) == [kind |-> kind, field |-> field, value |-> value]
TextLengths == {1, MaxTextLength - 1, MaxTextLength, MaxTextLength + 1}
BadBodies ==
    { Body("invalid", "", Null), Body("scalar", "", Null), Body("object", "other", Null) }
KeyBodies ==
    BadBodies \cup { Body("object", "key", v) :
                        v \in { Str("Enter", 5), Str("C-c", 3), Str("F1", 2),
                                Str("PageUp", 6), Str("", 0), Arr(1), Num } }
TextBodies ==
    BadBodies \cup { Body("object", "text", Str("lorem", n)) : n \in TextLengths }
              \cup { Body("object", "text", v) : v \in { Str("", 0), Arr(1), Num } }
ScrollBodies ==
    BadBodies \cup { Body("object", "direction", v) :
                        v \in { Str("up", 2), Str("down", 4), Str("left", 4), Arr(1) } }

\* data.get(field, "")
Get(body, field) == IF body.field = field THEN body.value ELSE Str("", 0)

\* bool(value), len(value), hash(value)
Truthy(v) == IF v.t \in {"string", "array"} THEN v.len > 0 ELSE v.t = "number"
HasLen(v) == v.t \in {"string", "array"}
Hashable(v) == v.t # "array"

allowed_keys ==
    { "Escape", "Tab", "BTab", "Enter", "Space",
      "Up", "Down", "Left", "Right",
      "C-c", "C-v", "C-z", "C-d", "C-l", "C-a", "C-e",
      "C-r", "C-w", "C-u", "C-k", "C-b", "C-f", "C-n", "C-p" }

\* key in allowed_keys, for a hashable key
KeyAllowed(key) == key.t = "string" /\ key.s \in allowed_keys

TextTooLongAtLimit(n) == n >= MaxTextLength

\* len(text) > 10000
TextTooLong(n) == n > MaxTextLength

\* One tmux command of a handler: subprocess.run([TMUX_BIN, cmd, ..., session, arg])
Tmux(cmd, session, arg) == [cmd |-> cmd, session |-> session, arg |-> arg]

RqIdle ==
    [ep |-> "none", raw |-> <<>>, body |-> Body("invalid", "", Null), name |-> "",
     pc |-> "idle", status |-> 0, exc |-> "", cmds |-> <<>>]

\* How a handler ends: with a response, or with an exception that leaves
\* do_GET or do_POST before any response is written.
Answer(status, cmds) == [status |-> status, exc |-> "", cmds |-> cmds]
Raise(exc, cmds) == [status |-> 0, exc |-> exc, cmds |-> cmds]

\* data = json.loads(body); value = data.get(field, ""): the exception raised
\* before the field is read, or "".
LoadError(body) ==
    CASE body.kind = "invalid" -> "JSONDecodeError"
      [] body.kind = "scalar" -> "AttributeError"
      [] OTHER -> ""

\* do_POST, /api/send-keys/
send_keys(session, body) ==
    LET key == Get(body, "key")
    IN IF LoadError(body) # "" THEN Raise(LoadError(body), <<>>)
       ELSE IF ~Hashable(key) THEN Raise("TypeError", <<>>)
       ELSE IF ~KeyAllowed(key) THEN Answer(400, <<>>)
       ELSE Answer(200, <<Tmux("send-keys", session, key.s)>>)

\* do_POST, /api/send-text/.  tmux load-buffer exits 0 when a tmux server runs;
\* a text that is not a string is refused by subprocess.run once load-buffer
\* has been started.
send_text(session, body) ==
    LET text == Get(body, "text")
        load == Tmux("load-buffer", <<>>, "")
    IN IF LoadError(body) # "" THEN Raise(LoadError(body), <<>>)
       ELSE IF ~Truthy(text) THEN Answer(400, <<>>)
       ELSE IF ~HasLen(text) THEN Raise("TypeError", <<>>)
       ELSE IF TextTooLong(text.len) THEN Answer(400, <<>>)
       ELSE IF text.t # "string" THEN Raise("TypeError", <<load>>)
       ELSE IF sessions # <<>>
            THEN Answer(200, <<load, Tmux("paste-buffer", session, "")>>)
       ELSE Answer(200, <<load>>)

\* do_POST, /api/scroll/
scroll(session, body) ==
    LET direction == Get(body, "direction")
    IN IF LoadError(body) # "" THEN Raise(LoadError(body), <<>>)
       ELSE IF ~(direction.t = "string" /\ direction.s \in {"up", "down"})
            THEN Answer(400, <<>>)
       ELSE Answer(200, << Tmux("copy-mode", session, ""),
                           Tmux("send-keys", session,
                                IF direction.s = "up" THEN "PageUp" ELSE "PageDown") >>)

\* The handler thread of the server is not inside a request.
RqResting == rq.pc \in {"idle", "ended"}

\* The request and how its handler ended.
Ended(ep, raw, body, end) ==
    [ep |-> ep, raw |-> raw, body |-> body, name |-> PathName(raw), pc |-> "ended",
     status |-> end.status, exc |-> end.exc, cmds |-> end.cmds]

\* POST /api/send-keys/<name>; session = f"claude-{name}"
RqSendKeys(raw, body) ==
    /\ RqResting
    /\ rq' = Ended("send-keys", raw, body, send_keys(SessionId(PathName(raw)), body))
    /\ UNCHANGED <<cfg, sessions, procs, th, chain, pf, gs, more>>

\* POST /api/send-text/<name>
RqSendText(raw, body) ==
    /\ RqResting
    /\ rq' = Ended("send-text", raw, body, send_text(SessionId(PathName(raw)), body))
    /\ UNCHANGED <<cfg, sessions, procs, th, chain, pf, gs, more>>

\* POST /api/scroll/<name>
RqScroll(raw, body) ==
    /\ RqResting
    /\ rq' = Ended("scroll", raw, body, scroll(SessionId(PathName(raw)), body))
    /\ UNCHANGED <<cfg, sessions, procs, th, chain, pf, gs, more>>

\* do_GET, /start/<name>: an empty name is redirected to the dashboard, any
\* other name is handed to start_session as it is.
RqStart(raw) ==
    /\ RqResting
    /\ Free(1)
    /\ RoomToStart
    /\ IF PathName(raw) = ""
       THEN /\ rq' = Ended("start", raw, RqIdle.body, Answer(302, <<>>))
            /\ UNCHANGED <<th, chain>>
       ELSE /\ rq' = [Ended("start", raw, RqIdle.body, Answer(0, <<>>))
                        EXCEPT !.pc = "calling"]
            /\ BeginLifecycle(1, "start", PathName(raw))
    /\ UNCHANGED <<cfg, sessions, procs, pf, gs, more>>

\* do_GET, /stop/<name>: the name is handed to stop_session as it is, the
\* empty name too.
RqStop(raw) ==
    /\ RqResting
    /\ Free(1)
    /\ rq' = [Ended("stop", raw, RqIdle.body, Answer(0, <<>>)) EXCEPT !.pc = "calling"]
    /\ BeginLifecycle(1, "stop", PathName(raw))
    /\ UNCHANGED <<cfg, sessions, procs, pf, gs, more>>

\* start_session or stop_session is over: the redirect is sent, or the
\* exception of the call leaves do_GET.  The handler thread is free again and
\* the monitors of the call are dropped.
RqRespond ==
    /\ rq.pc = "calling"
    /\ Resting(1)
    /\ rq' = [rq EXCEPT !.pc = "ended",
                        !.status = IF th[1].pc = "done" THEN 302 ELSE 0,
                        !.exc = IF th[1].pc = "done" THEN "" ELSE "ProcessLookupError"]
    /\ th' = [th EXCEPT ![1] = Idle]
    /\ chain' = ChainEmpty
    /\ UNCHANGED <<cfg, sessions, procs, pf, gs, more>>

---------------------------------------------------------------------------
(* get_sessions with probes that fail, are slow or hang.  Time is counted  *)
(* in seconds from the submission of the two futures.                      *)

\* A probe ends `at` seconds after its submission, or never.
ProbeTimes ==
    { [hang |-> FALSE, at |-> 0],
      [hang |-> FALSE, at |-> ResultTimeout + 1],
      [hang |-> TRUE, at |-> 0] }

GsIdle ==
    [pc |-> "idle", clock |-> 0, deadline |-> 0,
     tmux |-> [how |-> "ok", hang |-> FALSE, at |-> 0],
     ports |-> [hang |-> FALSE, at |-> 0],
     out |-> <<>>, ttyd_ports |-> {}, exc |-> "", result |-> <<>>]

\* The worker of a future has finished.
ProbeDone(p) == ~p.hang /\ gs.clock >= p.at

\* tmux_future = ex.submit(subprocess.check_output, [TMUX_BIN, "list-sessions", ...])
\* ports_future = ex.submit(get_ttyd_ports)
\* A missing binary fails at once; a run of tmux ends with status 0 or not.
GsSubmit ==
    /\ gs.pc \in {"idle", "returned", "raised"}
    /\ \E how \in {"ok", "nonzero", "absent"}, tt \in ProbeTimes, pt \in ProbeTimes :
          /\ how = "absent" => (~tt.hang /\ tt.at = 0)
          /\ gs' = [GsIdle EXCEPT
                       !.pc = "wait_tmux",
                       !.deadline = ResultTimeout,
                       !.tmux = [how |-> how, hang |-> tt.hang, at |-> tt.at],
                       !.ports = pt]
    /\ UNCHANGED <<cfg, sessions, procs, th, chain, pf, rq, more>>

\* A second passes while the call waits: on a future whose worker has not
\* finished and whose timeout has not expired, or on the workers at the exit
\* of the with block.
GsTick ==
    /\ gs.clock < MaxClock
    /\ \/ gs.pc = "wait_tmux" /\ ~ProbeDone(gs.tmux) /\ gs.clock < gs.deadline
       \/ gs.pc = "wait_ports" /\ ~ProbeDone(gs.ports) /\ gs.clock < gs.deadline
       \/ gs.pc = "shutdown" /\ ~(ProbeDone(gs.tmux) /\ ProbeDone(gs.ports))
    /\ gs' = [gs EXCEPT !.clock = @ + 1]
    /\ UNCHANGED <<cfg, sessions, procs, th, chain, pf, rq, more>>

\* out = tmux_future.result(timeout=3): the output, the exception of the
\* worker, or TimeoutError when the three seconds have passed.
GsTmuxResult ==
    /\ gs.pc = "wait_tmux"
    /\ IF ProbeDone(gs.tmux)
       THEN gs' = CASE gs.tmux.how = "ok" ->
                        [gs EXCEPT !.out = sessions, !.pc = "wait_ports",
                                   !.deadline = gs.clock + ResultTimeout]
                    [] gs.tmux.how = "nonzero" ->
                        [gs EXCEPT !.exc = "CalledProcessError", !.pc = "shutdown"]
                    [] gs.tmux.how = "absent" ->
                        [gs EXCEPT !.exc = "FileNotFoundError", !.pc = "shutdown"]
       ELSE /\ gs.clock = gs.deadline
            /\ gs' = [gs EXCEPT !.exc = "TimeoutError", !.pc = "shutdown"]
    /\ UNCHANGED <<cfg, sessions, procs, th, chain, pf, rq, more>>

\* ttyd_ports = ports_future.result(timeout=3)
GsPortsResult ==
    /\ gs.pc = "wait_ports"
    /\ IF ProbeDone(gs.ports)
       THEN gs' = [gs EXCEPT !.ttyd_ports = get_ttyd_ports, !.pc = "shutdown"]
       ELSE /\ gs.clock = gs.deadline
            /\ gs' = [gs EXCEPT !.exc = "TimeoutError", !.pc = "shutdown"]
    /\ UNCHANGED <<cfg, sessions, procs, th, chain, pf, rq, more>>

\* except (subprocess.CalledProcessError, FileNotFoundError): return []
Caught(exc) == exc \in {"CalledProcessError", "FileNotFoundError"}

\* The with block ends: ThreadPoolExecutor.__exit__ waits for both workers.
\* Then the sessions are merged, or the exception reaches the except clause.
GsLeave ==
    /\ gs.pc = "shutdown"
    /\ ProbeDone(gs.tmux) /\ ProbeDone(gs.ports)
    /\ gs' = IF gs.exc = ""
             THEN [gs EXCEPT !.result = Merge(gs.out, gs.ttyd_ports), !.pc = "returned"]
             ELSE IF Caught(gs.exc)
             THEN [gs EXCEPT !.result = <<>>, !.pc = "returned"]
             ELSE [gs EXCEPT !.pc = "raised"]
    /\ UNCHANGED <<cfg, sessions, procs, th, chain, pf, rq, more>>

---------------------------------------------------------------------------
(* The variables of the other specifications, at rest *)

\* One external command of an operation, and how the caller waits for it:
\* "run" is subprocess.run or check_output (no timeout argument), "popen" is
\* subprocess.Popen (not waited), "socket" is connect_ex after settimeout(0.5).
Ext(cmd, target, arg, wait) == [cmd |-> cmd, target |-> target, arg |-> arg, wait |-> wait]
NoExt == Ext("", <<>>, "", "end")
XcIdle ==
    [op |-> "none", name |-> "", arg |-> "", pc |-> "idle", cur |-> NoExt,
     log |-> <<>>, status |-> 0]
\* deps: the required binaries that are installed; server: the HTTP server
\* process; code: the exit status of the command; hints: the binaries reported
\* as missing; failed: the exception a request met; conns: the local client
\* processes with a connection to HUB_PORT; killed: the processes that
\* cmd_stop sent SIGTERM.
CliIdle ==
    [cmd |-> "none", pc |-> "idle", deps |-> {"tmux", "ttyd"}, server |-> "down",
     code |-> 0, hints |-> {}, found |-> FALSE, attempted |-> FALSE, failed |-> "",
     conns |-> {}, killed |-> {}]
\* buffer: the most recent automatic paste buffer of the tmux server, which is
\* the one paste-buffer takes; req: the send-text request of each handler
\* thread, with the text its paste-buffer put into its session.
TxIdle ==
    [buffer |-> "",
     req |-> [r \in Threads |-> [pc |-> "idle", name |-> "", text |-> "", pasted |-> ""]]]
\* made: the new-session command line of every session that exists, with the
\* arguments of the call that created it; last: the latest start call.
NoCall == [name |-> "", directory |-> "", skip |-> "", existed |-> FALSE, before |-> {}]
MonIdle ==
    [died |-> {}, started |-> {}, stopped |-> {}, ready |-> {}, made |-> {},
     last |-> NoCall]
\* table: the names of the tmux sessions; started: the names given to start;
\* listing: the result of the latest get_sessions, by session.
NoFolders == [raised |-> FALSE, base |-> <<>>, absolute |-> <<>>, folders |-> {},
              can_go_up |-> FALSE]
FnIdle == [pc |-> "idle", table |-> {}, started |-> {}, listing |-> <<>>,
           root |-> <<>>, rel |-> <<>>, result |-> NoFolders]

---------------------------------------------------------------------------
(* The external commands of one operation, with the exit status of each *)

Ops == {"start", "stop", "list", "isBridgeReady", "sendKey", "sendText", "scroll"}
Directions == {"up", "down", "left"}
\* returncode of a command; for ss and connect_ex, 0 stands for "a listener
\* was reported".  NotWaited is the entry of a Popen.
ExitCodes == {0, 1}
NotWaited == -1

\* port_in_use(port): lsof -i, else ss -tlnH, else _port_in_use_socket
ProbeExt ==
    IF variant = "hub" \/ "lsof" \in path THEN Ext("lsof", <<>>, "-i", "run")
    ELSE IF "ss" \in path THEN Ext("ss", <<>>, "-tlnH", "run")
    ELSE Ext("connect", <<>>, "", "socket")

\* stop_session after its pkill or lsof
KillSessionExt(session) == Ext("kill-session", session, "", "run")

\* get_ttyd_ports: _get_listening_ports_lsof, then _get_listening_ports_ss on
\* linux when no port was found
PortsExt ==
    IF variant = "hub" \/ "lsof" \in path THEN Ext("lsof", <<>>, "-iTCP", "run")
    ELSE IF platform = "linux" /\ "ss" \in path THEN Ext("ss", <<>>, "-tlnp", "run")
    ELSE NoExt

\* The first command of an operation.
First(op, session, arg) ==
    CASE op = "start" -> Ext("has-session", session, "", "run")
      [] op = "stop" ->
           IF variant = "hub" \/ "pkill" \in path THEN Ext("pkill", <<>>, "-f", "run")
           ELSE IF "lsof" \in path THEN Ext("lsof", <<>>, "-ti", "run")
           ELSE KillSessionExt(session)
      [] op = "list" -> Ext("list-sessions", <<>>, "", "run")
      [] op = "isBridgeReady" -> ProbeExt
      [] op = "sendKey" -> Ext("send-keys", session, arg, "run")
      [] op = "sendText" -> Ext("load-buffer", <<>>, "-", "run")
      [] op = "scroll" ->
           IF arg \in {"up", "down"} THEN Ext("copy-mode", session, "", "run") ELSE NoExt
      [] OTHER -> NoExt

\* if r.returncode != 0: new-session
AfterHasSession(session, rc) ==
    IF rc # 0 THEN Ext("new-session", session, "", "popen") ELSE ProbeExt

\* if not port_in_use(port): Popen(ttyd_cmd)
AfterProbe(session, rc) ==
    IF rc # 0 THEN Ext("ttyd", session, "-W", "popen") ELSE NoExt

AfterLoadBufferUnchecked(session, rc) == Ext("paste-buffer", session, "", "run")

AfterLoadBufferRetry(session, rc) ==
    IF rc = 0 THEN Ext("paste-buffer", session, "", "run")
    ELSE Ext("load-buffer", <<>>, "-", "run")

\* if proc.returncode == 0: paste-buffer
AfterLoadBuffer(session, rc) ==
    IF rc = 0 THEN Ext("paste-buffer", session, "", "run") ELSE NoExt

AfterCopyModeChecked(session, direction, rc) ==
    IF rc = 0
    THEN Ext("send-keys", session, IF direction = "up" THEN "PageUp" ELSE "PageDown", "run")
    ELSE NoExt

\* key = "PageUp" if direction == "up" else "PageDown"; the returncode of
\* copy-mode is not read.
AfterCopyMode(session, direction, rc) ==
    Ext("send-keys", session, IF direction = "up" THEN "PageUp" ELSE "PageDown", "run")

\* The command that follows command c, which ended with rc.
After(op, session, arg, c, rc) ==
    CASE op = "start" /\ c.cmd = "has-session" -> AfterHasSession(session, rc)
      [] op = "start" /\ c.cmd = "new-session" -> Ext("set-option", session, "mouse", "run")
      [] op = "start" /\ c.cmd = "set-option" -> ProbeExt
      [] op = "start" /\ c.cmd \in {"lsof", "ss", "connect"} -> AfterProbe(session, rc)
      [] op = "stop" /\ c.cmd \in {"pkill", "lsof"} -> KillSessionExt(session)
      [] op = "list" /\ c.cmd = "list-sessions" -> PortsExt
      [] op = "list" /\ c.cmd = "lsof" ->
           IF variant = "remote" /\ rc # 0 /\ platform = "linux" /\ "ss" \in path
           THEN Ext("ss", <<>>, "-tlnp", "run") ELSE NoExt
      [] op = "sendText" /\ c.cmd = "load-buffer" -> AfterLoadBuffer(session, rc)
      [] op = "scroll" /\ c.cmd = "copy-mode" -> AfterCopyMode(session, arg, rc)
      [] OTHER -> NoExt

\* The operation goes on with command c, or ends when there is none.
Proceed(x, c) ==
    IF c = NoExt THEN [x EXCEPT !.pc = "ended", !.cur = NoExt]
    ELSE [x EXCEPT !.pc = "running", !.cur = c]

Logged(c, rc) == [cmd |-> c.cmd, target |-> c.target, arg |-> c.arg, rc |-> rc]

\* A request arrives; a direction that is neither up nor down is answered 400.
XcBegin(op, n, arg) ==
    /\ xc.pc \in {"idle", "ended"}
    /\ xc' = Proceed([XcIdle EXCEPT !.op = op, !.name = n, !.arg = arg,
                                    !.status = IF op = "scroll" /\ arg \notin {"up", "down"}
                                               THEN 400 ELSE 200],
                     First(op, SessionId(n), arg))
    /\ UNCHANGED <<cfg, sessions, procs, th, chain, pf, gs, rq, cli, tx, mon, fn>>

XcStep(rc) ==
    /\ Len(xc.log) < MaxLog
    /\ xc' = Proceed([xc EXCEPT !.log = Append(@, Logged(xc.cur, rc))],
                     After(xc.op, SessionId(xc.name), xc.arg, xc.cur, rc))
    /\ UNCHANGED <<cfg, sessions, procs, th, chain, pf, gs, rq, cli, tx, mon, fn>>

\* The command that is waited for exits.
XcExit(rc) == xc.pc = "running" /\ xc.cur.wait = "run" /\ XcStep(rc)

\* Popen returns at once.
XcSpawn == xc.pc = "running" /\ xc.cur.wait = "popen" /\ XcStep(NotWaited)

\* connect_ex returns 0, or an error code: at the latest after the 0.5 s of
\* settimeout.
XcConnect(rc) == xc.pc = "running" /\ xc.cur.wait = "socket" /\ XcStep(rc)

\* The command never exits: subprocess.run waits for it without a timeout.
XcHang ==
    /\ xc.pc = "running"
    /\ xc.cur.wait = "run"
    /\ xc' = [xc EXCEPT !.pc = "blocked"]
    /\ UNCHANGED <<cfg, sessions, procs, th, chain, pf, gs, rq, cli, tx, mon, fn>>

---------------------------------------------------------------------------
(* /api/send-text/ in two handler threads of ThreadedHTTPServer *)

Texts == {"one", "two"}

\* do_POST, /api/send-text/<name> with a text that passes the checks
TxBegin(r, n, text) ==
    /\ tx.req[r].pc \in {"idle", "done"}
    /\ HasSession(SessionId(n))
    /\ tx' = [tx EXCEPT !.req[r] = [pc |-> "load", name |-> n, text |-> text, pasted |-> ""]]
    /\ UNCHANGED <<cfg, sessions, procs, th, chain, pf, gs, rq, xc, cli, mon, fn>>

\* subprocess.run([TMUX_BIN, "load-buffer", "-"], input=text): no -b, the text
\* becomes the most recent buffer of the server; returncode 0.
TxLoad(r) ==
    /\ tx.req[r].pc = "load"
    /\ tx' = [tx EXCEPT !.buffer = tx.req[r].text, !.req[r].pc = "paste"]
    /\ UNCHANGED <<cfg, sessions, procs, th, chain, pf, gs, rq, xc, cli, mon, fn>>

\* subprocess.run([TMUX_BIN, "paste-buffer", "-t", session]): no -b, the most
\* recent buffer goes into the session; then {"ok": true}.
TxPaste(r) ==
    /\ tx.req[r].pc = "paste"
    /\ tx' = [tx EXCEPT !.req[r].pasted = tx.buffer, !.req[r].pc = "done"]
    /\ UNCHANGED <<cfg, sessions, procs, th, chain, pf, gs, rq, xc, cli, mon, fn>>

---------------------------------------------------------------------------
(* A client that starts and stops sessions and polls /api/ttyd-ready/ *)

\* GET /start/<name>
LvStart(n) ==
    /\ th[1].pc = "idle"
    /\ BeginStart(1, n)

\* GET /stop/<name>
LvStop(n) ==
    /\ th[1].pc = "idle"
    /\ BeginLifecycle(1, "stop", n)
    /\ mon' = [mon EXCEPT !.stopped = @ \cup {n}]
    /\ UNCHANGED <<cfg, sessions, procs, pf, gs, rq, xc, cli, tx, fn>>

\* start_session or stop_session returns to do_GET, which answers the client.
LvReturn ==
    /\ th[1].pc \in {"done", "raised"}
    /\ mon' = IF th[1].op = "start" /\ th[1].pc = "done"
              THEN [mon EXCEPT !.started = @ \cup {th[1].name}]
              ELSE mon
    /\ th' = [th EXCEPT ![1] = Idle]
    /\ chain' = ChainEmpty
    /\ UNCHANGED <<cfg, sessions, procs, pf, gs, rq, xc, cli, tx, fn>>

\* GET /api/ttyd-ready/<name>: ready = port_in_use(port_for_name(name))
LvPoll(n) ==
    /\ mon' = IF port_in_use(port_for_name(n))
              THEN [mon EXCEPT !.ready = @ \cup {n}]
              ELSE mon
    /\ UNCHANGED <<cfg, sessions, procs, th, chain, pf, gs, rq, xc, cli, tx, fn>>

\* The steps of the call that the handler thread is in.
LvSteps ==
    \/ StartHasSession(1)
    \/ StartNewSession(1)
    \/ StartPortInUse(1)
    \/ StartLaunch(1)
    \/ StopKillBridge(1)
    \/ StopOsKill(1)
    \/ StopKillSession(1)
    \/ LvReturn

---------------------------------------------------------------------------
(* GET /start/<name>?dir=...&skip_permissions=...: the arguments of the session *)

\* Values of the dir parameter: absent (None; parse_qs drops a blank value), a
\* directory, a path that is no directory.
None == "None"
Directories == {None, "/home/u/project", "/home/u/missing"}
\* os.path.isdir(directory)
IsDir(directory) == directory = "/home/u/project"
\* Values of the skip_permissions parameter; "0" when it is absent.
SkipValues == {"0", "1", "true"}
\* skip_permissions = qs.get("skip_permissions", ["0"])[0] == "1"
SkipPermissions(value) == value = "1"

NewSessionCmdDirUnchecked(session, directory, skip_permissions) ==
    <<"new-session", "-d", "-s", session>>
      \o (IF directory # None THEN <<"-c", directory>> ELSE <<>>)
      \o <<"claude">>
      \o (IF skip_permissions THEN <<"--dangerously-skip-permissions">> ELSE <<>>)

\* cmd = [TMUX_BIN, "new-session", "-d", "-s", session] (+ ["-c", directory])
\* + [CLAUDE_BIN] (+ ["--dangerously-skip-permissions"])
NewSessionCmd(session, directory, skip_permissions) ==
    <<"new-session", "-d", "-s", session>>
      \o (IF directory # None /\ IsDir(directory) THEN <<"-c", directory>> ELSE <<>>)
      \o <<"claude">>
      \o (IF skip_permissions THEN <<"--dangerously-skip-permissions">> ELSE <<>>)

MadeFor(made, n) == {m \in made : m.name = n}

\* do_GET /start/ with start_session as a whole; the bridge binds later.
ArgStart(n, directory, value) ==
    LET session == SessionId(n)
        port == port_for_name(n)
        existed == HasSession(session)
        entry == [name |-> n, directory |-> directory, skip |-> value,
                  argv |-> NewSessionCmd(session, directory, SkipPermissions(value))]
    IN /\ RoomToStart
       /\ sessions' = IF existed THEN sessions
                      ELSE tmux_set_option(tmux_new_session(sessions, session), session)
       /\ procs' = IF port_in_use(port) THEN procs
                   ELSE procs \cup {Spawned(TtydArgv(port, session))}
       /\ mon' = [mon EXCEPT !.made = IF existed THEN @ ELSE @ \cup {entry},
                             !.last = [name |-> n, directory |-> directory, skip |-> value,
                                       existed |-> existed, before |-> MadeFor(mon.made, n)]]
       /\ UNCHANGED <<cfg, th, chain, pf, gs, rq, xc, cli, tx, fn>>

\* do_GET /stop/ with stop_session as a whole (pkill, or lsof and os.kill, then
\* kill-session).
ArgStop(n) ==
    /\ HasSession(SessionId(n))
    /\ sessions' = tmux_kill_session(sessions, SessionId(n))
    /\ procs' = IF variant = "hub" \/ "pkill" \in path THEN Pkill(procs, port_for_name(n))
                ELSE IF "lsof" \in path THEN procs \ LsofPids(port_for_name(n))
                ELSE procs
    /\ mon' = [mon EXCEPT !.made = @ \ MadeFor(@, n), !.last = NoCall]
    /\ UNCHANGED <<cfg, th, chain, pf, gs, rq, xc, cli, tx, fn>>

---------------------------------------------------------------------------
(* get_sessions on the text of tmux list-sessions: names as character strings *)

\* The characters of a name: letters, and the separator of the -F format.
NameChars == {"a", "b", "|"}
RECURSIVE StringsOver(_, _)
StringsOver(chars, n) ==
    IF n = 0 THEN {<<>>}
    ELSE LET shorter == StringsOver(chars, n - 1)
         IN shorter \cup {Append(s, c) : s \in {t \in shorter : Len(t) = n - 1}, c \in chars}
\* The names that /start/<name> hands to start_session: any but the empty one.
StartNames == StringsOver(NameChars, MaxNameLen) \ {<<>>}

\* "claude-"
Prefix == <<"c", "l", "a", "u", "d", "e", "-">>
\* A session of tmux that the hub did not create.
ForeignId == <<"m", "a", "i", "n">>

\* session = f"claude-{name}"
session_of(name) == Prefix \o name

\* One line of tmux list-sessions -F
\* "#{session_name}|#{session_activity}|#{session_windows}|#{session_attached}"
ListLine(id) == id \o <<"|", "7", "|", "1", "|", "0">>

\* line.startswith("claude-")
startswith(line, prefix) == IsPrefixOf(prefix, line)

\* line.split("|")[0]
FirstPart(line) ==
    LET seps == {i \in DOMAIN line : line[i] = "|"}
    IN IF seps = {} THEN line
       ELSE SubSeq(line, 1, (CHOOSE i \in seps : \A j \in seps : i <= j) - 1)

\* parts[0].removeprefix("claude-")
removeprefix(s, prefix) ==
    IF startswith(s, prefix) THEN SubSeq(s, Len(prefix) + 1, Len(s)) ELSE s

\* name = parts[0].removeprefix("claude-") of a line
ListedName(line) == removeprefix(FirstPart(line), Prefix)

\* get_sessions: the entries, one per line that starts with the prefix; each
\* is kept with the session it came from.
Listing(table) ==
    [id \in {i \in table : startswith(ListLine(i), Prefix)} |-> ListedName(ListLine(id))]

\* GET /start/<name>: the session claude-<name> exists from then on.
RtStart(n) ==
    /\ Cardinality(fn.table) < MaxTable
    /\ fn' = [fn EXCEPT !.table = @ \cup {session_of(n)}, !.started = @ \cup {n},
                        !.pc = "idle"]
    /\ UNCHANGED <<cfg, sessions, procs, th, chain, pf, gs, rq, xc, cli, tx, mon>>

\* tmux new-session -s main, from a terminal
RtForeign ==
    /\ ForeignId \notin fn.table
    /\ fn' = [fn EXCEPT !.table = @ \cup {ForeignId}, !.pc = "idle"]
    /\ UNCHANGED <<cfg, sessions, procs, th, chain, pf, gs, rq, xc, cli, tx, mon>>

\* GET /api/sessions
RtList ==
    /\ fn' = [fn EXCEPT !.listing = Listing(fn.table), !.pc = "listed"]
    /\ UNCHANGED <<cfg, sessions, procs, th, chain, pf, gs, rq, xc, cli, tx, mon>>

---------------------------------------------------------------------------
(* The folder picker: get_folders over a small file system *)

\* The directories that exist; there are no symbolic links.
FsDirs ==
    { <<"/">>, <<"/", "h">>, <<"/", "d">>, <<"/", "d", "/", "a">>,
      <<"/", "d", "/", ".", "a">>, <<"/", "d", "2">> }
\* os.path.expanduser("~")
Home == <<"/", "h">>
\* The values of DEV_ROOT: a directory that exists and one that does not.
DevRoots == {<<"/", "d">>, <<"/", "x">>}
\* rel_path = qs.get("path", [""])[0]
PathParts == {<<".", ".">>, <<".">>, <<"a">>, <<".", "a">>, <<"d">>, <<"d", "2">>, <<"z">>}
RECURSIVE JoinRel(_)
JoinRel(parts) ==
    IF parts = <<>> THEN <<>>
    ELSE IF Len(parts) = 1 THEN Head(parts)
    ELSE Head(parts) \o <<"/">> \o JoinRel(Tail(parts))
RelPaths ==
    LET relative == {JoinRel(parts) : parts \in StringsOver(PathParts, MaxRelParts)}
    IN relative \cup {<<"/">> \o r : r \in relative}

\* os.path.isdir
FsIsDir(p) == p \in FsDirs

\* path.split("/")
RECURSIVE SplitPath(_)
SplitPath(s) ==
    IF s = <<>> THEN << <<>> >>
    ELSE LET rest == SplitPath(Tail(s))
         IN IF Head(s) = "/" THEN << <<>> >> \o rest
            ELSE << <<Head(s)>> \o Head(rest) >> \o Tail(rest)

\* The components that remain: "" and "." are dropped, ".." takes the last
\* one away and stays at "/".
RECURSIVE Resolve(_, _)
Resolve(stack, parts) ==
    IF parts = <<>> THEN stack
    ELSE LET p == Head(parts)
         IN Resolve(IF p = <<>> \/ p = <<".">> THEN stack
                    ELSE IF p = <<".", ".">>
                    THEN (IF stack = <<>> THEN stack
                          ELSE SubSeq(stack, 1, Len(stack) - 1))
                    ELSE Append(stack, p),
                    Tail(parts))

RECURSIVE JoinParts(_)
JoinParts(stack) ==
    IF stack = <<>> THEN <<>>
    ELSE <<"/">> \o Head(stack) \o JoinParts(Tail(stack))

\* os.path.realpath of an absolute path, on a file system without links
realpath(p) ==
    LET r == JoinParts(Resolve(<<>>, SplitPath(p)))
    IN IF r = <<>> THEN <<"/">> ELSE r

\* os.path.join(a, b): an absolute b replaces a.
os_path_join(a, b) ==
    IF b # <<>> /\ Head(b) = "/" THEN b
    ELSE IF a[Len(a)] = "/" THEN a \o b
    ELSE a \o <<"/">> \o b

\* entry.name of a path
basename(p) == LET parts == SplitPath(p) IN parts[Len(parts)]

\* os.scandir(target), entry.is_dir() and not entry.name.startswith(".")
ScanDirs(target) ==
    {basename(d) : d \in {e \in FsDirs : /\ e # target
                                         /\ realpath(os_path_join(e, <<".", ".">>)) = target
                                         /\ ~startswith(basename(e), <<".">>)}}

\* base of get_folders: claude-remote-hub.py falls back to the home directory
\* when DEV_ROOT is no directory.
FolderBase(root) ==
    IF variant = "remote" /\ ~FsIsDir(realpath(root)) THEN Home ELSE realpath(root)

\* if not target.startswith(base): target = base
Confine(target, base) == IF ~startswith(target, base) THEN base ELSE target

\* target of get_folders; claude-remote-hub.py also replaces a target that is
\* no directory.
FolderTarget(root, rel_path) ==
    LET base == FolderBase(root)
        joined == IF rel_path # <<>> THEN realpath(os_path_join(base, rel_path)) ELSE base
        confined == Confine(joined, base)
    IN IF variant = "remote" /\ ~FsIsDir(confined) THEN base ELSE confined

\* get_folders(rel_path): os.scandir raises FileNotFoundError for a target that
\* does not exist; claude-hub.py catches PermissionError only.
get_folders(root, rel_path) ==
    LET base == FolderBase(root)
        target == FolderTarget(root, rel_path)
    IN [raised |-> variant = "hub" /\ ~FsIsDir(target),
        base |-> base,
        absolute |-> target,
        folders |-> IF FsIsDir(target) THEN ScanDirs(target) ELSE {},
        can_go_up |-> target # base]

\* GET /api/folders?path=<rel_path>
FdBrowse(rel_path) ==
    /\ fn' = [fn EXCEPT !.pc = "browsed", !.rel = rel_path,
                        !.result = get_folders(fn.root, rel_path)]
    /\ UNCHANGED <<cfg, sessions, procs, th, chain, pf, gs, rq, xc, cli, tx, mon>>

---------------------------------------------------------------------------
(* The command line: cmd_start, cmd_stop, and the server they control *)

\* missing = _check_dependencies(): claude-remote-hub.py looks tmux and ttyd up
\* with shutil.which; claude-hub.py makes no check.
Missing == IF variant = "hub" THEN {} ELSE {"tmux", "ttyd"} \ cli.deps

\* cmd_start: the missing binaries are reported and the command exits with
\* status 1; otherwise the server binds HUB_PORT and serves (bind fails with
\* OSError when a server already holds the port).
CmdStart ==
    /\ cli' = IF Missing # {}
              THEN [cli EXCEPT !.cmd = "start", !.pc = "done", !.code = 1,
                               !.hints = Missing, !.failed = ""]
              ELSE IF cli.server = "serving"
              THEN [cli EXCEPT !.cmd = "start", !.pc = "done", !.code = 1,
                               !.hints = {}, !.failed = "OSError"]
              ELSE [cli EXCEPT !.cmd = "start", !.pc = "serving", !.code = 0,
                               !.hints = {}, !.failed = "", !.server = "serving"]
    /\ UNCHANGED <<cfg, sessions, procs, th, chain, pf, gs, rq, xc, tx, mon, fn>>

\* GET /start/<name> served by the running server: start_session as a whole.
\* A binary that is not installed makes subprocess raise FileNotFoundError.
CliServeStart(n) ==
    /\ cli.server = "serving"
    /\ RoomToStart
    /\ IF "tmux" \notin cli.deps
       THEN /\ cli' = [cli EXCEPT !.failed = "FileNotFoundError"]
            /\ UNCHANGED <<sessions, procs>>
       ELSE /\ sessions' = IF HasSession(SessionId(n)) THEN sessions
                           ELSE tmux_set_option(tmux_new_session(sessions, SessionId(n)),
                                                SessionId(n))
            /\ IF port_in_use(port_for_name(n))
               THEN UNCHANGED <<procs, cli>>
               ELSE IF "ttyd" \in cli.deps
               THEN /\ procs' = procs \cup {Spawned(TtydArgv(port_for_name(n), SessionId(n)))}
                    /\ UNCHANGED cli
               ELSE /\ cli' = [cli EXCEPT !.failed = "FileNotFoundError"]
                    /\ UNCHANGED procs
    /\ UNCHANGED <<cfg, th, chain, pf, gs, rq, xc, tx, mon, fn>>

\* Processes: the server, and the clients on the same host.
ServerPid == "server"
Clients == {"browser"}
NoPid == "None"

\* A browser or curl on the host of the server opens a connection to HUB_PORT,
\* or closes it.
ClientConnect(c) ==
    /\ cli.server = "serving"
    /\ c \notin cli.conns
    /\ cli' = [cli EXCEPT !.conns = @ \cup {c}]
    /\ UNCHANGED <<cfg, sessions, procs, th, chain, pf, gs, rq, xc, tx, mon, fn>>

ClientClose(c) ==
    /\ c \in cli.conns
    /\ cli' = [cli EXCEPT !.conns = @ \ {c}]
    /\ UNCHANGED <<cfg, sessions, procs, th, chain, pf, gs, rq, xc, tx, mon, fn>>

\* lsof -ti :HUB_PORT prints the pid of every process with a socket on the
\* port, listening or connected, in the order of its inventory.
LsofHubPids == (IF cli.server = "serving" THEN {ServerPid} ELSE {}) \cup cli.conns
\* ss -tlnpH "sport = :HUB_PORT": the listening socket and its pid=
SsHubPids == IF cli.server = "serving" THEN {ServerPid} ELSE {}

\* find_hub_pid: the values it can return.  The first pid of lsof -ti, else
\* (claude-remote-hub.py) the pid= of ss, else None.
FindHubPids ==
    IF (variant = "hub" \/ "lsof" \in path) /\ LsofHubPids # {} THEN LsofHubPids
    ELSE IF variant = "remote" /\ "ss" \in path /\ SsHubPids # {} THEN SsHubPids
    ELSE {NoPid}

\* cleanup(sig, frame), the SIGTERM handler of the server: pkill -f with the
\* port of every session that get_sessions lists.
RECURSIVE CleanupKills(_, _)
CleanupKills(list, table) ==
    IF list = <<>> THEN table
    ELSE CleanupKills(Tail(list),
                      IF variant = "hub" \/ "pkill" \in path
                      THEN Pkill(table, Head(list).port) ELSE table)

\* f"ttyd.*-p 77" and "ttyd -p 77": the digits that the pattern of cmd_stop
\* gives after -p.
StopPrefix == 77

\* cmd_stop: SIGTERM to the server when its pid is found, then pkill -f on the
\* bridges (when pkill is found, in claude-remote-hub.py).
CmdStop(pid) ==
    /\ pid \in FindHubPids
    /\ LET attempted == variant = "hub" \/ "pkill" \in path
           afterTerm == IF pid = ServerPid
                        THEN CleanupKills(Merge(sessions, get_ttyd_ports), procs)
                        ELSE procs
       IN /\ procs' = IF attempted THEN Pkill(afterTerm, StopPrefix) ELSE afterTerm
          /\ cli' = [cli EXCEPT !.cmd = "stop", !.pc = "done", !.code = 0,
                                !.hints = {}, !.failed = "",
                                !.found = pid # NoPid, !.attempted = attempted,
                                !.killed = IF pid = NoPid THEN @ ELSE @ \cup {pid},
                                !.conns = IF pid = ServerPid THEN {} ELSE @ \ {pid},
                                !.server = IF pid = ServerPid THEN "down" ELSE @]
    /\ UNCHANGED <<cfg, sessions, th, chain, pf, gs, rq, xc, tx, mon, fn>>

\* SIGINT or SIGTERM reaches the foreground server: cleanup, then sys.exit(0).
CliSignal ==
    /\ cli.server = "serving"
    /\ procs' = CleanupKills(Merge(sessions, get_ttyd_ports), procs)
    /\ cli' = [cli EXCEPT !.cmd = "cleanup", !.pc = "done", !.code = 0,
                          !.hints = {}, !.failed = "", !.conns = {},
                          !.server = "down"]
    /\ UNCHANGED <<cfg, sessions, th, chain, pf, gs, rq, xc, tx, mon, fn>>

---------------------------------------------------------------------------
(* A tmux session that ends on its own *)

\* The program of the session exits, or the session is killed from a
\* terminal: tmux drops the session.  The bridge is another process and stays.
\* `died` keeps the name and whether its bridge was listening; the listings
\* made before are forgotten.
SessionDies(n) ==
    /\ HasSession(SessionId(n))
    /\ \A t \in Threads : Resting(t)
    /\ sessions' = tmux_kill_session(sessions, SessionId(n))
    /\ mon' = [mon EXCEPT !.died = @ \cup {<<n, Listening(port_for_name(n)) # {}>>}]
    /\ th' = [t \in Threads |-> Idle]
    /\ UNCHANGED <<cfg, procs, chain, pf, gs, rq, xc, cli, tx, fn>>

---------------------------------------------------------------------------
(* Specifications *)

\* The installations the model runs in.  claude-hub.py names its tools by
\* their macOS system paths; claude-remote-hub.py looks them up on PATH.
Deployments ==
    { [variant |-> "hub",    platform |-> "darwin", path |-> {"pkill", "lsof"}],
      [variant |-> "remote", platform |-> "darwin", path |-> {"pkill", "lsof"}],
      [variant |-> "remote", platform |-> "linux",  path |-> {"pkill", "ss"}],
      [variant |-> "remote", platform |-> "linux",  path |-> {"lsof", "ss"}],
      [variant |-> "remote", platform |-> "linux",  path |-> {}] }

Init ==
    /\ \E d \in Deployments :
          /\ variant = d.variant
          /\ platform = d.platform
          /\ path = d.path
    /\ sessions = <<>>
    /\ procs = {}
    /\ th = [t \in Threads |-> Idle]
    /\ chain = ChainEmpty
    /\ pf = PfIdle
    /\ gs = GsIdle
    /\ rq = RqIdle
    /\ xc = XcIdle
    /\ cli = CliIdle
    /\ tx = TxIdle
    /\ mon = MonIdle
    /\ fn = FnIdle

Next ==
    \/ \E t \in Threads, n \in Names : BeginStart(t, n)
    \/ \E t \in Threads, n \in Names : BeginStop(t, n)
    \/ \E t \in Threads : BeginList(t)
    \/ \E t \in Threads : StartHasSession(t)
    \/ \E t \in Threads : StartNewSession(t)
    \/ \E t \in Threads : StartPortInUse(t)
    \/ \E t \in Threads : StartLaunch(t)
    \/ \E t \in Threads : StopKillBridge(t)
    \/ \E t \in Threads : StopOsKill(t)
    \/ \E t \in Threads : StopKillSession(t)
    \/ \E t \in Threads : ListTmux(t)
    \/ \E t \in Threads : ListPorts(t)
    \/ \E p \in procs : BridgeBind(p)

Spec == Init /\ [][Next]_vars

PortInit ==
    /\ variant = "remote"
    /\ platform = "linux"
    /\ path = Tools
    /\ sessions = <<>>
    /\ procs = {}
    /\ th = [t \in Threads |-> Idle]
    /\ chain = ChainEmpty
    /\ pf = PfIdle
    /\ gs = GsIdle
    /\ rq = RqIdle
    /\ xc = XcIdle
    /\ cli = CliIdle
    /\ tx = TxIdle
    /\ mon = MonIdle
    /\ fn = FnIdle

PortNext == PortChoose \/ PortApply

PortSpec == PortInit /\ [][PortNext]_vars

\* get_sessions alone, in an installation where sessions and bridges are up.
ProbeInit ==
    /\ \E d \in Deployments :
          /\ variant = d.variant
          /\ platform = d.platform
          /\ path = d.path
    /\ \E up \in SUBSET Names, bridge \in Names \cup {""} :
          /\ sessions = SelectSeq([i \in DOMAIN SortedNames |->
                                     [id |-> SessionId(SortedNames[i]), mouse |-> TRUE]],
                                 LAMBDA r : r.id[2] \in up)
          /\ procs = IF bridge = "" THEN {}
                     ELSE {[argv |-> TtydArgv(port_for_name(bridge), SessionId(bridge)),
                            st |-> "listening", k |-> 1]}
    /\ th = [t \in Threads |-> Idle]
    /\ chain = ChainEmpty
    /\ pf = PfIdle
    /\ gs = GsIdle
    /\ rq = RqIdle
    /\ xc = XcIdle
    /\ cli = CliIdle
    /\ tx = TxIdle
    /\ mon = MonIdle
    /\ fn = FnIdle

ProbeNext == GsSubmit \/ GsTick \/ GsTmuxResult \/ GsPortsResult \/ GsLeave

ProbeSpec == ProbeInit /\ [][ProbeNext]_vars

\* One HTTP client: a request is sent when the one before has been answered.
ReqInit ==
    /\ \E d \in Deployments :
          /\ variant = d.variant
          /\ platform = d.platform
          /\ path = d.path
    /\ sessions = <<>>
    /\ procs = {}
    /\ th = [t \in Threads |-> Idle]
    /\ chain = ChainEmpty
    /\ pf = PfIdle
    /\ gs = GsIdle
    /\ rq = RqIdle
    /\ xc = XcIdle
    /\ cli = CliIdle
    /\ tx = TxIdle
    /\ mon = MonIdle
    /\ fn = FnIdle

ReqNext ==
    \/ \E raw \in RawPaths : RqStart(raw)
    \/ \E raw \in RawPaths : RqStop(raw)
    \/ \E raw \in PostPaths, body \in KeyBodies : RqSendKeys(raw, body)
    \/ \E raw \in PostPaths, body \in TextBodies : RqSendText(raw, body)
    \/ \E raw \in PostPaths, body \in ScrollBodies : RqScroll(raw, body)
    \/ RqRespond
    \/ StartHasSession(1)
    \/ StartNewSession(1)
    \/ StartPortInUse(1)
    \/ StartLaunch(1)
    \/ StopKillBridge(1)
    \/ StopOsKill(1)
    \/ StopKillSession(1)
    \/ \E p \in procs : BridgeBind(p)

ReqSpec == ReqInit /\ [][ReqNext]_vars

\* Sessions with and without a bridge are up; sessions die and listings are
\* asked for.  The server runs nothing but its request handlers.
DeathNames == {"My Name", "alpha"}

DeathInit ==
    /\ \E d \in Deployments :
          /\ variant = d.variant
          /\ platform = d.platform
          /\ path = d.path
    /\ \E up \in SUBSET DeathNames, bridged \in SUBSET DeathNames :
          /\ sessions = SelectSeq([i \in DOMAIN SortedNames |->
                                     [id |-> SessionId(SortedNames[i]), mouse |-> TRUE]],
                                 LAMBDA r : r.id[2] \in up)
          /\ procs = {[argv |-> TtydArgv(port_for_name(n), SessionId(n)),
                       st |-> "listening", k |-> 1] : n \in bridged}
    /\ th = [t \in Threads |-> Idle]
    /\ chain = ChainEmpty
    /\ pf = PfIdle
    /\ gs = GsIdle
    /\ rq = RqIdle
    /\ xc = XcIdle
    /\ cli = CliIdle
    /\ tx = TxIdle
    /\ mon = MonIdle
    /\ fn = FnIdle

DeathNext ==
    \/ \E n \in DeathNames : SessionDies(n)
    \/ \E t \in Threads : BeginList(t)
    \/ \E t \in Threads : ListTmux(t)
    \/ \E t \in Threads : ListPorts(t)

DeathSpec == DeathInit /\ [][DeathNext]_vars

\* The command line and one client, in an installation where some of the
\* required binaries may be missing.
CliInit ==
    /\ \E d \in Deployments :
          /\ variant = d.variant
          /\ platform = d.platform
          /\ path = d.path
    /\ sessions = <<>>
    /\ procs = {}
    /\ th = [t \in Threads |-> Idle]
    /\ chain = ChainEmpty
    /\ pf = PfIdle
    /\ gs = GsIdle
    /\ rq = RqIdle
    /\ xc = XcIdle
    /\ \E deps \in SUBSET {"tmux", "ttyd"} : cli = [CliIdle EXCEPT !.deps = deps]
    /\ tx = TxIdle
    /\ mon = MonIdle
    /\ fn = FnIdle

CliNext ==
    \/ CmdStart
    \/ \E pid \in {ServerPid, NoPid} \cup Clients : CmdStop(pid)
    \/ CliSignal
    \/ \E c \in Clients : ClientConnect(c)
    \/ \E c \in Clients : ClientClose(c)
    \/ \E n \in DeathNames : CliServeStart(n)
    \/ \E p \in procs : BridgeBind(p)

CliSpec == CliInit /\ [][CliNext]_vars

\* One operation at a time, each external command ending with any exit
\* status or never.
ExecInit ==
    /\ \E d \in Deployments :
          /\ variant = d.variant
          /\ platform = d.platform
          /\ path = d.path
    /\ sessions = <<>>
    /\ procs = {}
    /\ th = [t \in Threads |-> Idle]
    /\ chain = ChainEmpty
    /\ pf = PfIdle
    /\ gs = GsIdle
    /\ rq = RqIdle
    /\ xc = XcIdle
    /\ cli = CliIdle
    /\ tx = TxIdle
    /\ mon = MonIdle
    /\ fn = FnIdle

ExecNext ==
    \/ \E op \in Ops \ {"scroll", "sendKey"}, n \in DeathNames : XcBegin(op, n, "")
    \/ \E n \in DeathNames, d \in Directions : XcBegin("scroll", n, d)
    \/ \E n \in DeathNames : XcBegin("sendKey", n, "Enter")
    \/ \E rc \in ExitCodes : XcExit(rc)
    \/ XcSpawn
    \/ \E rc \in ExitCodes : XcConnect(rc)
    \/ XcHang

ExecSpec == ExecInit /\ [][ExecNext]_vars

\* Two clients pasting into two running sessions.
PasteInit ==
    /\ \E d \in Deployments :
          /\ variant = d.variant
          /\ platform = d.platform
          /\ path = d.path
    /\ sessions = tmux_new_session(tmux_new_session(<<>>, SessionId("alpha")),
                                   SessionId("My Name"))
    /\ procs = {}
    /\ th = [t \in Threads |-> Idle]
    /\ chain = ChainEmpty
    /\ pf = PfIdle
    /\ gs = GsIdle
    /\ rq = RqIdle
    /\ xc = XcIdle
    /\ cli = CliIdle
    /\ tx = TxIdle
    /\ mon = MonIdle
    /\ fn = FnIdle

PasteNext ==
    \/ \E r \in Threads, n \in DeathNames, text \in Texts : TxBegin(r, n, text)
    \/ \E r \in Threads : TxLoad(r)
    \/ \E r \in Threads : TxPaste(r)

PasteSpec == PasteInit /\ [][PasteNext]_vars

\* One client; every call that was begun goes on to its end, a spawned bridge
\* gets to bind, and the client keeps polling: a readiness that is there again
\* and again is seen.  Requests arrive or not.
LiveInit ==
    /\ \E d \in Deployments :
          /\ variant = d.variant
          /\ platform = d.platform
          /\ path = d.path
    /\ sessions = <<>>
    /\ procs = {}
    /\ th = [t \in Threads |-> Idle]
    /\ chain = ChainEmpty
    /\ pf = PfIdle
    /\ gs = GsIdle
    /\ rq = RqIdle
    /\ xc = XcIdle
    /\ cli = CliIdle
    /\ tx = TxIdle
    /\ mon = MonIdle
    /\ fn = FnIdle

LiveNext ==
    \/ \E n \in Names : LvStart(n)
    \/ \E n \in Names : LvStop(n)
    \/ \E n \in Names : LvPoll(n)
    \/ LvSteps
    \/ \E p \in procs : BridgeBind(p)

\* The ttyd processes that a start of the client can have spawned.
LiveBridges ==
    { [argv |-> argv, st |-> "spawned", k |-> k] :
         argv \in { TtydArgvRemote(port_for_name(n), SessionId(n)) : n \in Names }
                    \cup { TtydArgvHub(port_for_name(n), SessionId(n)) : n \in Names },
         k \in 1..(MaxPending + 1) }

\* Sessions are started under every name of up to MaxNameLen characters, and
\* listed.
RoundInit ==
    /\ \E d \in Deployments :
          /\ variant = d.variant
          /\ platform = d.platform
          /\ path = d.path
    /\ sessions = <<>>
    /\ procs = {}
    /\ th = [t \in Threads |-> Idle]
    /\ chain = ChainEmpty
    /\ pf = PfIdle
    /\ gs = GsIdle
    /\ rq = RqIdle
    /\ xc = XcIdle
    /\ cli = CliIdle
    /\ tx = TxIdle
    /\ mon = MonIdle
    /\ fn = FnIdle

RoundNext ==
    \/ \E n \in StartNames : RtStart(n)
    \/ RtForeign
    \/ RtList

RoundSpec == RoundInit /\ [][RoundNext]_vars

\* One client of the folder picker, for each value of DEV_ROOT.
FolderInit ==
    /\ \E d \in Deployments :
          /\ variant = d.variant
          /\ platform = d.platform
          /\ path = d.path
    /\ sessions = <<>>
    /\ procs = {}
    /\ th = [t \in Threads |-> Idle]
    /\ chain = ChainEmpty
    /\ pf = PfIdle
    /\ gs = GsIdle
    /\ rq = RqIdle
    /\ xc = XcIdle
    /\ cli = CliIdle
    /\ tx = TxIdle
    /\ mon = MonIdle
    /\ \E r \in DevRoots : fn = [FnIdle EXCEPT !.root = r]

FolderNext == \E rel_path \in RelPaths : FdBrowse(rel_path)

FolderSpec == FolderInit /\ [][FolderNext]_vars

\* One client that starts sessions with every combination of arguments.
ArgInit ==
    /\ \E d \in Deployments :
          /\ variant = d.variant
          /\ platform = d.platform
          /\ path = d.path
    /\ sessions = <<>>
    /\ procs = {}
    /\ th = [t \in Threads |-> Idle]
    /\ chain = ChainEmpty
    /\ pf = PfIdle
    /\ gs = GsIdle
    /\ rq = RqIdle
    /\ xc = XcIdle
    /\ cli = CliIdle
    /\ tx = TxIdle
    /\ mon = MonIdle
    /\ fn = FnIdle

ArgNext ==
    \/ \E n \in DeathNames, directory \in Directories, value \in SkipValues :
          ArgStart(n, directory, value)
    \/ \E n \in DeathNames : ArgStop(n)
    \/ \E p \in procs : BridgeBind(p)

ArgSpec == ArgInit /\ [][ArgNext]_vars

LiveSpec ==
    /\ LiveInit
    /\ [][LiveNext]_vars
    /\ WF_vars(LvSteps)
    /\ \A p \in LiveBridges : WF_vars(BridgeBind(p))
    /\ \A n \in Names : SF_vars(LvPoll(n))

---------------------------------------------------------------------------
(* Properties *)

Issued(cmds, c) == \E i \in DOMAIN cmds : cmds[i] = c
Creates(cmds) == Issued(cmds, "new-session") \/ Issued(cmds, "ttyd")
\* Thread t holds a call of op that returned and overlapped no start or stop.
SoloDone(t, op) == th[t].op = op /\ th[t].pc = "done" /\ th[t].ov = {}
Quiet == \A u \in Threads : ~Lifecycle(u)
FullyRunning(n) == HasSession(SessionId(n)) /\ Attached(n)
Listed(t, n) == \E i \in DOMAIN th[t].result : th[t].result[i].name = n

Raced(n) ==
    /\ \A u \in Threads :
          /\ th[u].op = "start" /\ th[u].pc = "done" /\ th[u].name = n
          /\ th[u].ov = {"start_same"}
    /\ \E t \in Threads : th[t].pre = "ABSENT"

ExactlyOne(n) ==
    /\ FullyRunning(n)
    /\ Cardinality(SessionsNamed(SessionId(n))) = 1
    /\ Cardinality(Listening(port_for_name(n))) = 1

C4_StopLeavesAbsent ==
    \A t \in Threads :
        SoloDone(t, "stop")
            => (~HasSession(SessionId(th[t].name)) /\ ~Attached(th[t].name))

\* C5: when stop(name) is followed by a listing with no start(name) in
\* between, the listing has no entry for the name.
C5_StoppedNotListed ==
    \A t \in Threads :
        (th[t].op = "list" /\ th[t].pc = "done")
            => \A w \in th[t].watch : w[1] \in th[t].ov \/ ~Listed(t, w[1])

\* C6: every stop(name) issues the tmux kill-session, whatever the outcome of
\* the bridge-termination step.
C6_KillSessionAlwaysIssued ==
    \A t \in Threads :
        (th[t].op = "stop" /\ Resting(t)) => Issued(th[t].cmds, "kill-session")

C8_RestartFullyRunning ==
    (chain.st = "STS" /\ Quiet /\ ~Starting(port_for_name(chain.name)))
        => (FullyRunning(chain.name) /\ chain.port1 = chain.last)

C10_CollisionNotMerged ==
    \A t \in Threads :
        (th[t].op = "list" /\ th[t].pc = "done")
            => \A i \in DOMAIN th[t].result :
                   th[t].result[i].has_ttyd
                       => <<th[t].result[i].port, SessionId(th[t].result[i].name)>>
                              \in th[t].truth

\* C11: in every reachable state each name is ABSENT, MULTIPLEXER_ONLY or
\* FULLY_RUNNING: a bridge launched for a name never listens on
\* port_for_name(name) while the session claude-<name> does not exist.
C11_NoBridgeWithoutSession ==
    \A n \in Names : Attached(n) => HasSession(SessionId(n))

\* C12: every entry of a listing has has_ttyd true if and only if some
\* process was listening on the port of the entry when the ports were probed.
C12_HasTtydIffListening ==
    \A t \in Threads :
        (th[t].op = "list" /\ th[t].pc = "done")
            => \A i \in DOMAIN th[t].result :
                   th[t].result[i].has_ttyd
                       <=> (\E b \in th[t].truth : b[1] = th[t].result[i].port)

\* C16: the enumeration of the listening ports falls back from lsof to ss and
\* from ss to a connect probe of each port of the range, and is empty only
\* when no process listens on a port of the range.
C16_PortsFoundByFallback ==
    InRange(ListeningPorts) # {} => get_ttyd_ports = InRange(ListeningPorts)

\* C13: a get_sessions call that ends after the tmux binary was absent, or
\* after list-sessions exited nonzero, has returned the empty list and raised
\* nothing.
C13_TmuxFailureGivesEmptyList ==
    (gs.pc \in {"returned", "raised"} /\ gs.tmux.how \in {"nonzero", "absent"})
        => (gs.pc = "returned" /\ gs.result = <<>>)

\* C14: each of the two probes of get_sessions is waited for at most
\* ResultTimeout seconds, so that a call is back at its caller, with a list or
\* an exception, once twice that time has passed, even when a probe hangs.
C14_CallEndsWithinTimeouts ==
    gs.clock > 2 * ResultTimeout => gs.pc \in {"idle", "returned", "raised"}

\* C15: a get_sessions call in which a probe exceeded its timeout does not
\* end by raising the timeout to its caller: it returns a list.
C15_TimeoutNotPropagated ==
    gs.exc = "TimeoutError" => gs.pc # "raised"

\* The field an endpoint reads from the body of its request.
FieldOf(ep) ==
    CASE ep = "send-keys" -> "key"
      [] ep = "send-text" -> "text"
      [] ep = "scroll" -> "direction"

\* The request has ended: a response was sent or an exception left the handler.
EndedAt(ep) == rq.ep = ep /\ rq.pc = "ended"

\* C17: a send-keys request that carries a JSON object whose key is not in the
\* allow-list is answered with status 400 and runs no tmux command, and every
\* key the send-keys endpoint hands to tmux send-keys is in the allow-list.
C17_OnlyAllowedKeysForwarded ==
    (EndedAt("send-keys") /\ rq.body.kind = "object")
        => /\ ~KeyAllowed(Get(rq.body, "key")) => (rq.status = 400 /\ rq.cmds = <<>>)
           /\ \A i \in DOMAIN rq.cmds : rq.cmds[i].arg \in allowed_keys

\* C18: a send-text request whose text is a string that is empty or longer
\* than 10,000 characters is answered with status 400 and runs neither
\* load-buffer nor paste-buffer; a text of exactly 10,000 characters is
\* accepted: load-buffer is run and the answer is 200.
C18_TextLengthChecked ==
    (EndedAt("send-text") /\ rq.body.kind = "object"
        /\ Get(rq.body, "text").t = "string")
        => LET n == Get(rq.body, "text").len
           IN /\ (n = 0 \/ n > MaxTextLength) => (rq.status = 400 /\ rq.cmds = <<>>)
              /\ n = MaxTextLength
                    => (rq.status = 200 /\ rq.cmds # <<>> /\ rq.cmds[1].cmd = "load-buffer")

C18_Witness ==
    /\ EndedAt("send-text")
    /\ rq.body.kind = "object"
    /\ Get(rq.body, "text").t = "string"
    /\ Get(rq.body, "text").len = MaxTextLength + 1
    /\ rq.status = 400

\* A body that is not JSON, JSON that is not an object, an object without the
\* field of the endpoint, or a scroll direction other than up and down.
Malformed(ep, body) ==
    \/ body.kind # "object"
    \/ body.field # FieldOf(ep)
    \/ ep = "scroll" /\ ~(body.value.t = "string" /\ body.value.s \in {"up", "down"})

\* C19: every malformed request to send-keys, send-text or scroll is answered
\* with status 400 and runs no tmux command.
C19_MalformedAnswered ==
    (rq.pc = "ended" /\ rq.ep \in {"send-keys", "send-text", "scroll"}
        /\ Malformed(rq.ep, rq.body))
        => (rq.status = 400 /\ rq.cmds = <<>>)

\* The characters of the names of the model.
Chars(name) ==
    CASE name = "alpha" -> <<"a", "l", "p", "h", "a">>
      [] name = "proto" -> <<"p", "r", "o", "t", "o">>
      [] name = "My Name" -> <<"M", "y", " ", "N", "a", "m", "e">>
      [] name = "" -> <<>>

\* Lowercase letters, digits and the hyphen.
SafeChars ==
    { "a", "b", "c", "d", "e", "f", "g", "h", "i", "j", "k", "l", "m",
      "n", "o", "p", "q", "r", "s", "t", "u", "v", "w", "x", "y", "z",
      "0", "1", "2", "3", "4", "5", "6", "7", "8", "9", "-" }

Safe(name) == \A i \in DOMAIN Chars(name) : Chars(name)[i] \in SafeChars

\* C20: the names that start_session and stop_session are called with, the
\* names of the tmux sessions that exist, and the names in the session ids of
\* the tmux commands of the key-forwarding endpoints, are all made of
\* lowercase letters, digits and hyphens.
C20_OnlySafeNamesUsed ==
    /\ \A t \in Threads : th[t].op \in {"start", "stop"} => Safe(th[t].name)
    /\ \A i \in DOMAIN sessions : Safe(RemovePrefix(sessions[i].id))
    /\ \A p \in procs : Safe(ArgSession(p.argv)[2])
    /\ \A i \in DOMAIN rq.cmds :
          rq.cmds[i].session # <<>> => Safe(rq.cmds[i].session[2])

\* C21: a listing made after a tmux session died does not include the name
\* of that session, also when the bridge of the name was listening when the
\* session died; until that listing the session has not been created again
\* and a bridge that was listening still listens.
C21_DeadSessionNotListed ==
    \A t \in Threads :
        (th[t].op = "list" /\ th[t].pc = "done")
            => \A d \in mon.died :
                  /\ ~Listed(t, d[1])
                  /\ ~HasSession(SessionId(d[1]))
                  /\ d[2] => Listening(port_for_name(d[1])) # {}

C21_Witness ==
    \E t \in Threads :
        /\ th[t].op = "list" /\ th[t].pc = "done"
        /\ <<"alpha", TRUE>> \in mon.died
        /\ Listed(t, "My Name")
        /\ ~Listed(t, "alpha")
        /\ Listening(port_for_name("alpha")) # {}

\* C25: every port of the reserved range BASE_PORT..MAX_PORT, 7799 included,
\* is the port that port_for_name computes from some digest: from the digest
\* of the call being made or from another one.
C25_EveryPortHasDigest ==
    \A p \in BASE_PORT..MAX_PORT :
        \E h \in HexStrings \cup {pf.hex} : port_of_digest(h) = p

\* C29: a step of a stop call on a name removes no tmux session and no ttyd
\* process of another name.
C29_StopLeavesOthers ==
    [][\A t \in Threads :
          (th[t].op = "stop" /\ Active(t) /\ th'[t].pc # th[t].pc)
              => /\ \A p \in procs :
                       ArgSession(p.argv) # SessionId(th[t].name) => p \in procs'
                 /\ \A i \in DOMAIN sessions :
                       sessions[i].id # SessionId(th[t].name)
                           => \E j \in DOMAIN sessions' : sessions'[j] = sessions[i]]_vars

\* C23: when tmux or ttyd is not installed, the start command ends with exit
\* status 1 after naming the missing binaries, the HTTP server is never bound
\* and no request fails on the missing binary.
C23_MissingBinaryStopsStart ==
    cli.deps # {"tmux", "ttyd"}
        => /\ cli.server = "down"
           /\ cli.failed # "FileNotFoundError"
           /\ (cli.cmd = "start" /\ cli.pc = "done")
                 => (cli.code = 1 /\ cli.hints = {"tmux", "ttyd"} \ cli.deps)

\* C24: once the stop command has run, the server process is terminated, the
\* kill of the bridges was attempted, and no ttyd process launched by
\* start_session is left.
C24_StopKillsEveryBridge ==
    (cli.cmd = "stop" /\ cli.pc = "done")
        => (cli.server = "down" /\ cli.attempted /\ procs = {})

\* C22: start, stop, isBridgeReady, sendKey, sendText and scroll never wait
\* without bound for an external command: none of them is left blocked on a
\* command that does not exit.
C22_NoUnboundedWait ==
    xc.op \in {"start", "stop", "isBridgeReady", "sendKey", "sendText", "scroll"}
        => xc.pc # "blocked"

\* C26: within one start, stop, list, sendKey, sendText or scroll call no
\* external command is issued twice, whatever the exit statuses.
C26_NoRetry ==
    xc.op \in {"start", "stop", "list", "sendKey", "sendText", "scroll"}
        => \A i, j \in DOMAIN xc.log :
              (i # j) => <<xc.log[i].cmd, xc.log[i].target, xc.log[i].arg>>
                           # <<xc.log[j].cmd, xc.log[j].target, xc.log[j].arg>>

C26_Witness ==
    /\ xc.op = "sendText"
    /\ xc.pc = "ended"
    /\ Len(xc.log) = 1
    /\ xc.log[1].cmd = "load-buffer"
    /\ xc.log[1].rc # 0

\* C27: a scroll with direction up or down that has ended issued copy-mode on
\* claude-<name> and then send-keys PageUp (up) or PageDown (down) on it, and
\* nothing else, whatever copy-mode returned; with any other direction it
\* issued no command and answered 400.
C27_ScrollTwoCommands ==
    (xc.op = "scroll" /\ xc.pc = "ended")
        => IF xc.arg \in {"up", "down"}
           THEN /\ Len(xc.log) = 2
                /\ xc.log[1].cmd = "copy-mode"
                /\ xc.log[1].target = SessionId(xc.name)
                /\ xc.log[2].cmd = "send-keys"
                /\ xc.log[2].target = SessionId(xc.name)
                /\ xc.log[2].arg = (IF xc.arg = "up" THEN "PageUp" ELSE "PageDown")
                /\ xc.status = 200
           ELSE xc.log = <<>> /\ xc.status = 400

C27_Witness ==
    /\ xc.op = "scroll"
    /\ xc.pc = "ended"
    /\ xc.arg = "down"
    /\ Len(xc.log) = 2
    /\ xc.log[1].rc # 0
    /\ xc.log[2].arg = "PageDown"

\* C28: a send-text request that has ended pasted its own text into its
\* session, also while a send-text for another session is in progress.
C28_PastesOwnText ==
    \A r \in Threads :
        (/\ tx.req[r].pc = "done"
         /\ \A q \in Threads \ {r} : tx.req[q].name # tx.req[r].name)
            => tx.req[r].pasted = tx.req[r].text

\* C30: once start(name) has returned, a client that polls the readiness of
\* name eventually gets ready = true, unless a stop(name) was issued.
C30_StartedLeadsToReady ==
    \A n \in Names :
        (n \in mon.started) ~> (n \in mon.ready \/ n \in mon.stopped)

\* C31: in every state, for every name that has a session (and so is
\* listed), the readiness check port_in_use(port_for_name(name)) equals the
\* has_ttyd value that the listing computes from get_ttyd_ports.
C31_ReadyAgreesWithListing ==
    \A n \in Names :
        HasSession(SessionId(n))
            => (port_in_use(port_for_name(n)) <=> port_for_name(n) \in get_ttyd_ports)

Has(argv, word) == \E i \in DOMAIN argv : argv[i] = word

\* C32: a start on a name whose session exists leaves the command line of the
\* session as its creating call made it; a start that creates the session
\* appends the flag exactly when skip_permissions is true ("1") and -c with
\* the directory exactly when the directory is an existing directory.
C32_ArgumentsOnlyAtCreation ==
    LET l == mon.last
    IN l.name # ""
        => IF l.existed
           THEN MadeFor(mon.made, l.name) = l.before
           ELSE \E m \in MadeFor(mon.made, l.name) :
                   /\ MadeFor(mon.made, l.name) = {m}
                   /\ m.directory = l.directory /\ m.skip = l.skip
                   /\ Has(m.argv, "--dangerously-skip-permissions") <=> (l.skip = "1")
                   /\ Has(m.argv, "-c") <=> IsDir(l.directory)
                   /\ Has(m.argv, "-c") => Has(m.argv, l.directory)
                   /\ \A d \in Directories \ {l.directory} : ~Has(m.argv, d)

C32_Witness ==
    /\ mon.last.existed
    /\ mon.last.skip = "1"
    /\ mon.last.directory = "/home/u/project"
    /\ \E m \in MadeFor(mon.made, mon.last.name) :
          ~Has(m.argv, "--dangerously-skip-permissions") /\ ~Has(m.argv, "-c")

\* The commands of a start call that creates the session, and of one that
\* finds it.
StartCreating == <<"has-session", "new-session", "set-option", "port-in-use", "ttyd">>
StartFinding == <<"has-session", "port-in-use", "ttyd">>

\* C33 (as stated): the mouse option is sent only by the call that creates the
\* session: when set-option is issued, the session did not exist before the
\* new-session of the same call.
C33_MouseOnlyByCreator ==
    [][\A t \in Threads :
          (th[t].op = "start" /\ th[t].pc = "new_session" /\ th'[t].pc # "new_session")
              => ~HasSession(SessionId(th[t].name))]_vars

\* C33 (amended): the commands of a start call are, in this order, has-session,
\* then new-session and set-option exactly when has-session did not find the
\* session, then the port check, then the bridge launch; a call that has
\* ended stopped after the port check or after the launch.
C33_StartStepsOrdered ==
    [][\A t \in Threads :
          th'[t].op = "start"
              => /\ \/ IsPrefixOf(th'[t].cmds, StartCreating)
                    \/ IsPrefixOf(th'[t].cmds, StartFinding)
                 /\ (th[t].pc = "has_session" /\ th'[t].pc # "has_session")
                       => (th'[t].pc = "new_session" <=> ~HasSession(SessionId(th[t].name)))
                 /\ th'[t].pc = "done"
                       => th'[t].cmds[Len(th'[t].cmds)] \in {"port-in-use", "ttyd"}]_vars

C33_Witness ==
    \E t, u \in Threads :
        /\ t # u
        /\ th[t].op = "start" /\ th[u].op = "start" /\ th[t].name = th[u].name
        /\ th[t].pc = "done" /\ th[t].cmds = StartCreating
        /\ th[u].pc = "done" /\ th[u].cmds \in {StartCreating, SubSeq(StartCreating, 1, 4)}

\* C35: sendKey, sendText and scroll (up or down) on a name that has no
\* session end with the answer ok whatever the exit status of their tmux
\* commands, run nothing but send-keys, load-buffer, paste-buffer and
\* copy-mode, leave the sessions and the bridges as they were (none), and
\* paste-buffer is run only after a load-buffer that exited zero.
C35_ForwardingKeepsLifecycle ==
    (/\ xc.op \in {"sendKey", "sendText", "scroll"}
     /\ xc.pc = "ended"
     /\ xc.op = "scroll" => xc.arg \in {"up", "down"})
        => /\ xc.status = 200
           /\ sessions = <<>> /\ procs = {}
           /\ \A i \in DOMAIN xc.log :
                 /\ xc.log[i].cmd \in {"send-keys", "load-buffer", "paste-buffer", "copy-mode"}
                 /\ xc.log[i].cmd = "paste-buffer"
                       => (i > 1 /\ xc.log[i - 1].cmd = "load-buffer" /\ xc.log[i - 1].rc = 0)

C35_Witness ==
    /\ xc.op = "sendKey"
    /\ xc.pc = "ended"
    /\ ~HasSession(SessionId(xc.name))
    /\ xc.log # <<>> /\ xc.log[1].rc # 0
    /\ xc.status = 200

\* C37: start_session and stop_session are never called with the empty name:
\* a GET /start/ or GET /stop/ without a name is answered with a redirect and
\* runs no call.
C37_EmptyNameNotCalled ==
    /\ \A t \in Threads : th[t].op \in {"start", "stop"} => th[t].name # ""
    /\ (rq.ep \in {"start", "stop"} /\ rq.name = "")
          => (rq.pc = "ended" /\ rq.status = 302)

\* C36: after the cleanup handler of the server has run, no bridge of a
\* session that exists (and so was listed) is left, spawned or listening.
C36_CleanupKillsListedBridges ==
    (cli.cmd = "cleanup" /\ cli.pc = "done")
        => \A i \in DOMAIN sessions :
              \A p \in procs : ArgSession(p.argv) # sessions[i].id

\* C38: cmd_stop sends SIGTERM to no process but the server that listens on
\* HUB_PORT.
C38_OnlyServerSignalled == cli.killed \subseteq {ServerPid}

\* C34: in a listing, every name that was started has exactly one entry of
\* that name, a session without the prefix claude- has no entry, and the
\* name of each entry is the name of its session without the prefix.
C34_ListingRoundTrips ==
    fn.pc = "listed"
        => /\ \A n \in fn.started :
                 Cardinality({id \in DOMAIN fn.listing : fn.listing[id] = n}) = 1
           /\ ForeignId \notin DOMAIN fn.listing
           /\ \A id \in DOMAIN fn.listing : session_of(fn.listing[id]) = id


\* The directory at path p is the root or lies below it.
Within(root, p) ==
    \/ p = root
    \/ startswith(p, IF root = <<"/">> THEN root ELSE root \o <<"/">>)

\* C39: for every relative path given to get_folders, the directory that is
\* listed and returned as absolute is the root itself or a descendant of it; a
\* sibling whose path only starts with the root's path string is replaced too.
C39_NeverAboveRoot ==
    (fn.pc = "browsed" /\ ~fn.result.raised)
        => Within(fn.result.base, fn.result.absolute)
=============================================================================
